---- MODULE Spec2Model ----
(***************************************************************************)
(* Model of the JSON schema generator (package schemas).                   *)
(*                                                                         *)
(* The generator of src/pkg/schemas/schemas_test.go lines 101-506 (the     *)
(* current generator: object roots, objectPkgs, getFields and              *)
(* removeExtraProps) drives the synthesizer of src/pkg/schemas/schema.go.  *)
(* One run of Generate is modelled as a state machine over a type graph    *)
(* drawn in Init: the driver loops enumerate Go maps in any order, the     *)
(* recursive NeedSchemaFor is an explicit call stack, and the Go maps and  *)
(* slices shared by shallow struct copies live in a heap.                  *)
(***************************************************************************)
EXTENDS Integers, Sequences, FiniteSets, TLC

VARIABLES
    graph,       \* the input: packages, declared types, the generator flag
    pc,          \* position of Generate: load, scan, assemble, done, crashed
    loaded,      \* packages indexed by parser.NeedPackage (domain of parser.Types)
    Schemata,    \* parser.Schemata: TypeIdent -> schema struct value
    heapProps,   \* the Properties map allocated by structToSchema, one per type
    heapReq,     \* the backing array of Required allocated by structToSchema
    pkgMarkers,  \* context.pkgMarkers: package -> marker values
    objectPkgs,  \* context.objectPkgs: sequence of package paths
    errors,      \* errors recorded with AddError, as <<package, kind>> records
    documents,   \* documents of Generate: name -> document
    stack,       \* the active calls of NeedSchemaFor, innermost last
    scanStart,   \* parser.Types as the scan loop started
    scanned,     \* types the scan loop has produced
    assembled,   \* ledger keys the assembly loop has produced
    expanded,    \* history: how often each type's body was synthesized
    refLog,      \* history: every link TypeRefLink returned, with its arguments
    built,       \* history: the properties and required lists as the scan left them
    writes,      \* history: how often each key of the ledger and of pkgMarkers was stored
    applyLog,    \* history: every call of applyMarkers with markers, and what it applied
    previous     \* history: the results of the earlier runs of Generate on the input

vars == <<graph, pc, loaded, Schemata, heapProps, heapReq, pkgMarkers, objectPkgs,
          errors, documents, stack, scanStart, scanned, assembled, expanded, refLog,
          built, writes, applyLog, previous>>

(***************************************************************************)
(* Bounds of the input family.                                             *)
(***************************************************************************)
\* Longest ring of mutually recursive types in the generated ring graphs.
MaxRing == 3
\* Longest chain of intermediate types between an object root and the taxonomy.
MaxChain == 2

\* The most runs of Generate on one input.
MaxRuns == 2

(***************************************************************************)
(* Generic helpers.                                                        *)
(***************************************************************************)
EmptyMap == [x \in {} |-> x]

Range(s) == {s[i] : i \in DOMAIN s}

MapPut(m, k, v) == [x \in DOMAIN m \cup {k} |-> IF x = k THEN v ELSE m[x]]

MapDelete(m, k) == [x \in DOMAIN m \ {k} |-> m[x]]

RECURSIVE JoinWith(_, _)
JoinWith(segs, sep) ==
    IF Len(segs) = 0 THEN ""
    ELSE IF Len(segs) = 1 THEN segs[1]
    ELSE segs[1] \o sep \o JoinWith(Tail(segs), sep)

\* Index (from 1) of the first element of list equal to a, 0 when absent
\* (Go's indexOf returns the 0-based index and -1).
indexOf(a, list) ==
    IF \E i \in DOMAIN list : list[i] = a
    THEN CHOOSE i \in DOMAIN list : list[i] = a /\ \A j \in 1..(i - 1) : list[j] # a
    ELSE 0

\* All orders in which the keys of a Go map can be enumerated.
Orders(S) == {s \in [1..Cardinality(S) -> S] : \A i, j \in DOMAIN s : s[i] = s[j] => i = j}

(***************************************************************************)
(* Type identities and packages.                                           *)
(***************************************************************************)
\* crd.TypeIdent{Package, Name}; a package is named by its identity.
TypeIdent(p, n) == [pkg |-> p, name |-> n]

\* crd.TypeIdent{Package: nil, Name: Empty}
NilPkg == "<nil>"
NilIdent == TypeIdent(NilPkg, "")

(***************************************************************************)
(* Schema nodes (apiext.JSONSchemaProps).                                  *)
(***************************************************************************)
\* The zero value. Items and AdditionalProperties are pointers: <<>> is nil.
EmptyNode ==
    [Type |-> "", Format |-> "", Ref |-> "", Title |-> "", Description |-> "",
     Properties |-> EmptyMap, Required |-> <<>>, Items |-> <<>>,
     AdditionalProperties |-> <<>>, AllOf |-> <<>>, MaxItems |-> "",
     XPreserveUnknownFields |-> "nil"]

\* A schema struct value held in the ledger, in a document or in a local
\* variable. Copying the struct copies the header only: when ptr names a
\* type, Properties is the shared map heapProps[ptr] and Required is the first
\* len elements of the shared backing array heapReq[ptr].
NoPtr == NilIdent

StructValue(node, ptr, len) == [node |-> node, ptr |-> ptr, len |-> len]

\* What a reader of the struct value sees.
View(sv, hp, hr) ==
    IF sv.ptr = NoPtr THEN sv.node
    ELSE [sv.node EXCEPT !.Properties = hp[sv.ptr],
                         !.Required = SubSeq(hr[sv.ptr], 1, sv.len)]

(***************************************************************************)
(* Marker names.                                                           *)
(***************************************************************************)
schemaMarkerName == "fybrik:validation:schema"
objectMarkerName == "fybrik:validation:object"
OptionalName == "kubebuilder:validation:Optional"
RequiredName == "kubebuilder:validation:Required"
SchemalessName == "kubebuilder:validation:Schemaless"
TypeMarkerName == "kubebuilder:validation:Type"
MaxItemsName == "kubebuilder:validation:MaxItems"
PreserveName == "kubebuilder:pruning:PreserveUnknownFields"

NoMarkers == EmptyMap

(***************************************************************************)
(* The inputs: type graphs.                                                *)
(***************************************************************************)
Basic(kind) == [k |-> "ident", res |-> [t |-> "basic", kind |-> kind]]

Local(p, n) == [k |-> "ident", res |-> [t |-> "named", id |-> TypeIdent(p, n)]]

Sel(p, n) == [k |-> "sel", res |-> [t |-> "named", id |-> TypeIdent(p, n)]]

Star(x) == [k |-> "star", x |-> x]

Slice(elt) == [k |-> "array", elt |-> elt, fixed |-> FALSE]

Array(elt) == [k |-> "array", elt |-> elt, fixed |-> TRUE]

StringKey == [t |-> "basic", kind |-> "string"]

MapOf(key, val) == [k |-> "map", key |-> key, val |-> val]

StructLit == [k |-> "struct"]

MarkerAt(name, kind, arg, pos) == name :> <<[kind |-> kind, arg |-> arg, pos |-> pos]>>

Marker(name, kind, arg) == MarkerAt(name, kind, arg, 1)

\* A field with the tag `json:"<opts joined by commas>"`.
Fld(opts, type, ms) ==
    [Name |-> "", hasTag |-> TRUE, jsonOpts |-> opts, Type |-> type, Markers |-> ms, Doc |-> ""]

\* A field without a json tag.
Untagged(name, type, ms) ==
    [Name |-> name, hasTag |-> FALSE, jsonOpts |-> <<"">>, Type |-> type, Markers |-> ms,
     Doc |-> ""]

Struct(fields, ms) ==
    [Doc |-> "", Markers |-> ms, Fields |-> fields, Raw |-> StructLit, marshaler |-> FALSE]

Named(raw, ms) ==
    [Doc |-> "", Markers |-> ms, Fields |-> <<>>, Raw |-> raw, marshaler |-> FALSE]

ObjectMarker(title) == Marker(objectMarkerName, "ObjName", title)

Pkg(path, name, ms) == [path |-> path, name |-> name, markers |-> ms]

SchemaPkgMarker == Marker(schemaMarkerName, "none", "")

OptionalPkgMarker == Marker(OptionalName, "none", "")

RequiredMarker == Marker(RequiredName, "none", "")

OptionalMarker == Marker(OptionalName, "none", "")

Graph(pkgs, roots, types, allow) ==
    [pkgs |-> pkgs, roots |-> roots, types |-> types, allowDangerousTypes |-> allow]

\* The packages the graphs are built from.
ObjPkg == "obj" :> Pkg(<<"fybrik.io", "obj">>, "obj", NoMarkers)

Obj2Pkg == "obj2" :> Pkg(<<"fybrik.io", "obj2">>, "obj2", NoMarkers)

TaxPkg == "tax" :> Pkg(<<"fybrik.io", "tax">>, "tax", SchemaPkgMarker)

Tax2Pkg == "tax2" :> Pkg(<<"other.io", "tax">>, "tax", SchemaPkgMarker)

OptPkg == "opt" :> Pkg(<<"fybrik.io", "opt">>, "opt", SchemaPkgMarker @@ OptionalPkgMarker)

ExtPkg == "ext" :> Pkg(<<"k8s.io", "ext">>, "ext", NoMarkers)

Ext2Pkg == "ext2" :> Pkg(<<"k8s.io", "ext2">>, "ext2", NoMarkers)

\* The packages of the repository's tests (src/unnamed/part_001 and
\* src/testPkgs/schemapkg/schema_pkg.go): SampleCrd is the object root, and
\* schemapkg is the taxonomy package, optional by default (its package
\* markers are the ones TestInvalidApp relies on: the omitempty field schemaf2,
\* annotated required, is required).
SampleGraph ==
    Graph("obj" :> Pkg(<<"fybrik.io", "json-schema-generator", "testPkgs", "fybrikobject">>,
                       "fybrikobject", NoMarkers)
          @@ "tax" :> Pkg(<<"fybrik.io", "json-schema-generator", "testPkgs", "schemapkg">>,
                          "schemapkg", SchemaPkgMarker @@ OptionalPkgMarker),
          {"obj"},
          TypeIdent("obj", "SampleCrd") :>
              Struct(<<Fld(<<"field1">>, Local("obj", "Type1"), NoMarkers),
                       Fld(<<"field2">>, Local("obj", "Type2"), NoMarkers),
                       Fld(<<"field3">>, Basic("string"), NoMarkers)>>,
                     ObjectMarker("sample_crd"))
          @@ TypeIdent("obj", "Type1") :>
              Struct(<<Fld(<<"type1f1", "omitempty">>, Sel("tax", "SchemaType1"), NoMarkers),
                       Fld(<<"type1f2", "omitempty">>, Basic("string"), NoMarkers)>>,
                     NoMarkers)
          @@ TypeIdent("obj", "Type2") :>
              Struct(<<Fld(<<"type2f1", "omitempty">>, Basic("bool"), NoMarkers),
                       Fld(<<"type2f2", "omitempty">>, Basic("string"), NoMarkers)>>,
                     NoMarkers)
          @@ TypeIdent("tax", "SchemaType1") :>
              Struct(<<Fld(<<"schemaf1", "omitempty">>, Basic("bool"), RequiredMarker),
                       Fld(<<"schemaf2", "omitempty">>, Basic("string"), RequiredMarker)>>,
                     NoMarkers),
          FALSE)

\* How a field of the ring graphs refers to the next type of the ring.
Wraps == {"star", "slice", "map"}

Wrap(w, e) ==
    CASE w = "star" -> Star(e)
      [] w = "slice" -> Slice(e)
      [] OTHER -> MapOf(StringKey, e)

RingName(i) == "N" \o ToString(i)

\* n types of one package, each with a field that refers to the next one and
\* the last one referring to the first.  In the taxonomy package every type is
\* requested by the scan; in the object package the first type is the object
\* root.
RingGraph(n, w, p) ==
    Graph(ObjPkg @@ TaxPkg, {p},
          [t \in {TypeIdent(p, RingName(i)) : i \in 1..n} |->
              LET i == CHOOSE j \in 1..n : t.name = RingName(j)
              IN Struct(<<Fld(<<"id">>, Basic("string"), NoMarkers),
                          Fld(<<"next", "omitempty">>,
                              Wrap(w, Local(p, RingName((i % n) + 1))), NoMarkers)>>,
                        IF p = "obj" /\ i = 1 THEN ObjectMarker("ring") ELSE NoMarkers)],
          FALSE)

ChainName(i) == "T" \o ToString(i)

\* An object root, n intermediate types of package ext between it and the
\* taxonomy type S, and a type U that leads nowhere.
ChainGraph(n) ==
    Graph(ObjPkg @@ TaxPkg @@ ExtPkg, {"obj"},
          TypeIdent("obj", "R") :>
              Struct(<<Fld(<<"link">>,
                           IF n = 0 THEN Sel("tax", "S") ELSE Sel("ext", ChainName(1)),
                           NoMarkers),
                       Fld(<<"other">>, Star(Sel("ext", "U")), NoMarkers),
                       Fld(<<"name", "omitempty">>, Basic("string"), NoMarkers)>>,
                     ObjectMarker("chain"))
          @@ [t \in {TypeIdent("ext", ChainName(i)) : i \in 1..n} |->
                LET i == CHOOSE j \in 1..n : t.name = ChainName(j)
                IN Struct(<<Fld(<<"plain">>, Basic("int32"), NoMarkers),
                            Fld(<<"down">>,
                                IF i = n THEN Slice(Sel("tax", "S"))
                                ELSE MapOf(StringKey, Local("ext", ChainName(i + 1))),
                                NoMarkers)>>,
                          NoMarkers)]
          @@ TypeIdent("ext", "U") :>
              Struct(<<Fld(<<"u">>, Basic("int64"), NoMarkers)>>, NoMarkers)
          @@ TypeIdent("tax", "S") :>
              Struct(<<Fld(<<"s">>, Basic("string"), NoMarkers)>>, NoMarkers),
          FALSE)


\* Two taxonomy packages of the same package name, each with a type T.
SameNameGraph ==
    Graph(TaxPkg @@ Tax2Pkg, {"tax", "tax2"},
          TypeIdent("tax", "T") :>
              Struct(<<Fld(<<"a">>, Basic("string"), NoMarkers)>>, NoMarkers)
          @@ TypeIdent("tax2", "T") :>
              Struct(<<Fld(<<"b">>, Basic("int32"), NoMarkers)>>, NoMarkers),
          FALSE)

\* An object root with fields of two types named T of different packages and
\* a field of a type that leads nowhere.  ext.T leads to the taxonomy; ext2.T
\* does when both holds.
TwinsGraph(both) ==
    Graph(ObjPkg @@ TaxPkg @@ ExtPkg @@ Ext2Pkg, {"obj"},
          TypeIdent("obj", "R") :>
              Struct(<<Fld(<<"x">>, Sel("ext", "T"), NoMarkers),
                       Fld(<<"y">>, Sel("ext2", "T"), NoMarkers),
                       Fld(<<"z", "omitempty">>, Star(Sel("ext", "U")), NoMarkers)>>,
                     ObjectMarker("twins"))
          @@ TypeIdent("ext", "T") :>
              Struct(<<Fld(<<"t">>, Sel("tax", "S"), NoMarkers)>>, NoMarkers)
          @@ TypeIdent("ext2", "T") :>
              Struct(<<Fld(<<"w">>, Basic("string"), NoMarkers)>>
                     \o (IF both THEN <<Fld(<<"t">>, Sel("tax", "S"), NoMarkers)>> ELSE <<>>),
                     NoMarkers)
          @@ TypeIdent("ext", "U") :>
              Struct(<<Fld(<<"u">>, Basic("int64"), NoMarkers)>>, NoMarkers)
          @@ TypeIdent("tax", "S") :>
              Struct(<<Fld(<<"s">>, Basic("string"), NoMarkers)>>, NoMarkers),
          FALSE)

\* An object root that reaches the intermediate type M through two fields.
SharedGraph ==
    Graph(ObjPkg @@ TaxPkg @@ ExtPkg, {"obj"},
          TypeIdent("obj", "R") :>
              Struct(<<Fld(<<"a">>, Sel("ext", "M"), NoMarkers),
                       Fld(<<"b">>, Slice(Sel("ext", "M")), NoMarkers)>>,
                     ObjectMarker("shared"))
          @@ TypeIdent("ext", "M") :>
              Struct(<<Fld(<<"t">>, Sel("tax", "S"), NoMarkers),
                       Fld(<<"p">>, Basic("string"), NoMarkers),
                       Fld(<<"q">>, Basic("string"), NoMarkers)>>,
                     NoMarkers)
          @@ TypeIdent("tax", "S") :>
              Struct(<<Fld(<<"s">>, Basic("string"), NoMarkers)>>, NoMarkers),
          FALSE)

\* The required policy: a struct of the taxonomy package p with a field of
\* each kind the policy tells apart.  Package tax is required by default,
\* package opt optional by default.
PolicyGraph(p) ==
    Graph(TaxPkg @@ OptPkg, {p},
          TypeIdent(p, "P") :>
              Struct(<<Fld(<<"plain">>, Basic("string"), NoMarkers),
                       Fld(<<"omit", "omitempty">>, Basic("string"), NoMarkers),
                       Fld(<<"opt">>, Basic("string"), OptionalMarker),
                       Fld(<<"opt2">>, Basic("string"), Marker("optional", "none", "")),
                       Fld(<<"req", "omitempty">>, Basic("string"), RequiredMarker),
                       Fld(<<"", "inline">>, Local(p, "E"), NoMarkers),
                       Fld(<<"emb", "inline">>, Local(p, "F"), RequiredMarker),
                       Fld(<<"-">>, Basic("float64"),
                           RequiredMarker @@ Marker(MaxItemsName, "MaxItems", 3)),
                       Untagged("Hidden", Basic("string"), RequiredMarker)>>,
                     NoMarkers)
          @@ TypeIdent(p, "E") :>
              Struct(<<Fld(<<"e">>, Basic("string"), NoMarkers)>>, NoMarkers)
          @@ TypeIdent(p, "F") :>
              Struct(<<Fld(<<"f", "omitempty">>, Basic("bool"), NoMarkers)>>, NoMarkers),
          FALSE)

\* A field of a named type annotated with kubebuilder:validation:Type.
TypedGraph ==
    Graph(TaxPkg, {"tax"},
          TypeIdent("tax", "K") :>
              Struct(<<Fld(<<"r">>, Local("tax", "S"), Marker(TypeMarkerName, "Type", "object")),
                       Fld(<<"n", "omitempty">>, Basic("int32"), NoMarkers)>>,
                     NoMarkers)
          @@ TypeIdent("tax", "S") :>
              Struct(<<Fld(<<"s">>, Basic("string"), NoMarkers)>>, NoMarkers),
          FALSE)

\* A taxonomy type that refers to a type of the object root's package; both
\* packages are roots, so the scan meets their types in any order.
OrderGraph ==
    Graph(ObjPkg @@ TaxPkg, {"obj", "tax"},
          TypeIdent("tax", "X") :>
              Struct(<<Fld(<<"a">>, Sel("obj", "A"), NoMarkers)>>, NoMarkers)
          @@ TypeIdent("obj", "R") :>
              Struct(<<Fld(<<"x">>, Sel("tax", "X"), NoMarkers),
                       Fld(<<"a", "omitempty">>, Star(Local("obj", "A")), NoMarkers)>>,
                     ObjectMarker("order"))
          @@ TypeIdent("obj", "A") :>
              Struct(<<Fld(<<"n">>, Basic("string"), NoMarkers)>>, NoMarkers),
          FALSE)

\* An object root's package with a type that no field refers to.
OrphanGraph ==
    Graph(ObjPkg @@ TaxPkg, {"obj"},
          TypeIdent("obj", "R") :>
              Struct(<<Fld(<<"s">>, Sel("tax", "S"), NoMarkers)>>, ObjectMarker("orphan"))
          @@ TypeIdent("obj", "Lone") :>
              Struct(<<Fld(<<"n">>, Basic("string"), NoMarkers)>>, NoMarkers)
          @@ TypeIdent("tax", "S") :>
              Struct(<<Fld(<<"s">>, Basic("string"), NoMarkers)>>, NoMarkers),
          FALSE)

\* A taxonomy package that is not a root, with a type that no field refers
\* to: the package is indexed while the scan loop ranges over parser.Types.
LateGraph ==
    Graph(ObjPkg @@ TaxPkg, {"obj"},
          TypeIdent("obj", "R") :>
              Struct(<<Fld(<<"s">>, Sel("tax", "S"), NoMarkers)>>, ObjectMarker("late"))
          @@ TypeIdent("tax", "S") :>
              Struct(<<Fld(<<"s">>, Basic("string"), NoMarkers)>>, NoMarkers)
          @@ TypeIdent("tax", "Z") :>
              Struct(<<Fld(<<"z">>, Basic("string"), NoMarkers)>>, NoMarkers),
          FALSE)

\* An identifier the type checker could not resolve, and an interface type.
Invalid == [k |-> "ident", res |-> [t |-> "invalid"]]

Iface == [k |-> "iface"]

IntKey == [t |-> "basic", kind |-> "int"]

\* A struct whose fields each fail in another way, among fields that do not;
\* lit adds a field whose type is a struct literal, allow is the flag
\* allowDangerousTypes.
ErrorFields(lit) ==
    <<Fld(<<"first">>, Basic("string"), NoMarkers),
      Untagged("Hidden", Basic("string"), NoMarkers),
      Fld(<<"bad">>, Invalid, NoMarkers),
      Fld(<<"iface">>, Iface, NoMarkers),
      Fld(<<"byInt">>, MapOf(IntKey, Basic("string")), NoMarkers),
      Fld(<<"f">>, Basic("float64"), NoMarkers),
      Fld(<<"cap">>, Basic("string"), Marker(MaxItemsName, "MaxItems", 3))>>
    \o (IF lit THEN <<Fld(<<"lit">>, StructLit, NoMarkers)>> ELSE <<>>)
    \o <<Fld(<<"after">>, Local("tax", "After"), NoMarkers),
         Fld(<<"last", "omitempty">>, Basic("bool"), NoMarkers)>>

ErrorsGraph(lit, allow) ==
    Graph(TaxPkg, {"tax"},
          TypeIdent("tax", "Z") :> Struct(ErrorFields(lit), NoMarkers)
          @@ TypeIdent("tax", "After") :>
              Struct(<<Fld(<<"ratio">>, Basic("float32"), NoMarkers)>>, NoMarkers),
          allow)

\* Sequences of bytes and of other elements.
SequenceGraph ==
    Graph(TaxPkg, {"tax"},
          TypeIdent("tax", "Q") :>
              Struct(<<Fld(<<"b">>, Slice(Basic("byte")), NoMarkers),
                       Fld(<<"u">>, Slice(Basic("uint8")), NoMarkers),
                       Fld(<<"a">>, Array(Basic("byte")), NoMarkers),
                       Fld(<<"s">>, Slice(Basic("string")), NoMarkers),
                       Fld(<<"e">>, Slice(Local("tax", "E")), NoMarkers)>>,
                     NoMarkers)
          @@ TypeIdent("tax", "E") :>
              Struct(<<Fld(<<"n">>, Basic("int64"), NoMarkers)>>, NoMarkers),
          FALSE)

\* Fields with several markers, in the order of their comment lines.
MarkersGraph ==
    Graph(TaxPkg, {"tax"},
          TypeIdent("tax", "W") :>
              Struct(<<Fld(<<"list">>, Slice(Basic("string")),
                           MarkerAt(MaxItemsName, "MaxItems", 3, 1)
                           @@ MarkerAt(PreserveName, "XPreserveUnknownFields", "", 2)
                           @@ MarkerAt(TypeMarkerName, "Type", "array", 3)
                           @@ MarkerAt(OptionalName, "none", "", 4)),
                       Fld(<<"twice">>, Basic("string"),
                           TypeMarkerName :>
                               <<[kind |-> "Type", arg |-> "integer", pos |-> 1],
                                 [kind |-> "Type", arg |-> "number", pos |-> 2]>>),
                       Fld(<<"open">>, Basic("string"),
                           MarkerAt(PreserveName, "XPreserveUnknownFields", "", 1)),
                       Fld(<<"openMap">>, MapOf(StringKey, Basic("int32")),
                           MarkerAt(PreserveName, "XPreserveUnknownFields", "", 1)),
                       Fld(<<"closedMap">>, MapOf(StringKey, Basic("int32")),
                           MarkerAt(OptionalName, "none", "", 1))>>,
                     NoMarkers),
          FALSE)

\* The names of the inputs of the model.
GraphNames ==
    {[family |-> "sample"]}
    \cup {[family |-> "ring", n |-> n, w |-> w, p |-> p] :
            n \in 1..MaxRing, w \in Wraps, p \in {"tax", "obj"}}
    \cup {[family |-> "chain", n |-> n] : n \in 0..MaxChain}
    \cup {[family |-> "sameName"], [family |-> "shared"], [family |-> "typed"],
          [family |-> "order"]}
    \cup {[family |-> "twins", both |-> b] : b \in BOOLEAN}
    \cup {[family |-> "policy", p |-> p] : p \in {"tax", "opt"}}
    \cup {[family |-> "orphan"], [family |-> "sequence"], [family |-> "markers"],
          [family |-> "late"]}
    \cup {[family |-> "errors", lit |-> l, allow |-> a] : l \in BOOLEAN, a \in BOOLEAN}

GraphOf(g) ==
    CASE g.family = "sample" -> SampleGraph
      [] g.family = "ring" -> RingGraph(g.n, g.w, g.p)
      [] g.family = "chain" -> ChainGraph(g.n)
      [] g.family = "sameName" -> SameNameGraph
      [] g.family = "shared" -> SharedGraph
      [] g.family = "typed" -> TypedGraph
      [] g.family = "order" -> OrderGraph
      [] g.family = "twins" -> TwinsGraph(g.both)
      [] g.family = "policy" -> PolicyGraph(g.p)
      [] g.family = "orphan" -> OrphanGraph
      [] g.family = "late" -> LateGraph
      [] g.family = "sequence" -> SequenceGraph
      [] g.family = "markers" -> MarkersGraph
      [] g.family = "errors" -> ErrorsGraph(g.lit, g.allow)

\* The inputs of the model, each with its name.
Graphs ==
    {[name |-> g, pkgs |-> GraphOf(g).pkgs, roots |-> GraphOf(g).roots,
      types |-> GraphOf(g).types, allowDangerousTypes |-> GraphOf(g).allowDangerousTypes] :
        g \in GraphNames}

\* The input of the run.
G == graph

(***************************************************************************)
(* Packages and parser.Types.                                              *)
(***************************************************************************)
PkgIds == DOMAIN G.pkgs

\* loader.Package.PkgPath
PkgPath(p) == JoinWith(G.pkgs[p].path, "/")

\* loader.Package.Name
PkgName(p) == G.pkgs[p].name

\* loader.NonVendorPath: the path after the last vendor directory.
RECURSIVE NonVendorSegs(_)
NonVendorSegs(segs) ==
    IF \E i \in DOMAIN segs : segs[i] = "vendor"
    THEN NonVendorSegs(SubSeq(segs, 1 + (CHOOSE i \in DOMAIN segs : segs[i] = "vendor"
                                            /\ \A j \in 1..(i - 1) : segs[j] # "vendor"),
                              Len(segs)))
    ELSE segs

\* Every declared type of the graph, and parser.Types: those of indexed packages.
AllTypes == DOMAIN G.types

TypesOf(ld) == {t \in AllTypes : t.pkg \in ld}

Types == TypesOf(loaded)

(***************************************************************************)
(* Markers.  markers.MarkerValues maps a marker name to its values; a      *)
(* value is [kind, arg].  ObjName is defined by the generator; the other   *)
(* kinds are the controller-tools markers registered by RegisterMarkers.   *)
(***************************************************************************)
\* MarkerValues.Get(name) != nil
HasMarker(ms, name) == name \in DOMAIN ms /\ Len(ms[name]) > 0

\* markerValue.(SchemaMarker)
IsSchemaMarker(m) == m.kind \in {"ObjName", "Type", "MaxItems", "XPreserveUnknownFields"}

\* The apply-first test when no marker implements ApplyFirst.
IsNeverApplyFirst(m) == FALSE

\* markerValue.(applyFirstMarker)
IsApplyFirst(m) == m.kind = "Type"

\* SchemaMarker.ApplyToSchema: the rewritten node and whether an error is returned.
ApplyToSchema(m, props) ==
    CASE m.kind = "ObjName" -> [node |-> [props EXCEPT !.Title = m.arg], err |-> FALSE]
      [] m.kind = "Type" -> [node |-> [props EXCEPT !.Type = m.arg], err |-> FALSE]
      [] m.kind = "XPreserveUnknownFields" ->
            [node |-> [props EXCEPT !.XPreserveUnknownFields = "true"], err |-> FALSE]
      [] m.kind = "MaxItems" ->
            IF props.Type # "array" THEN [node |-> props, err |-> TRUE]
            ELSE [node |-> [props EXCEPT !.MaxItems = m.arg], err |-> FALSE]
      [] OTHER -> [node |-> props, err |-> FALSE]

\* One pass of applyMarkers over the values ms, applying those that pick(m) selects.
RECURSIVE ApplyPass(_, _, _)
ApplyPass(ms, first, acc) ==
    IF Len(ms) = 0 THEN acc
    ELSE LET m == Head(ms)
             r == ApplyToSchema(m, acc.node)
         IN IF IsApplyFirst(m) # first \/ ~IsSchemaMarker(m)
            THEN ApplyPass(Tail(ms), first, acc)
            ELSE ApplyPass(Tail(ms), first,
                           [node |-> r.node,
                            nerr |-> acc.nerr + (IF r.err THEN 1 ELSE 0),
                            applied |-> Append(acc.applied, m)])

\* The marker values in the order a range over the map produces them.
RECURSIVE InOrder(_, _)
InOrder(markerSet, order) ==
    IF Len(order) = 0 THEN <<>>
    ELSE markerSet[Head(order)] \o InOrder(markerSet, Tail(order))

\* The end of applyMarkers without the exchange.
KeepPreserve(props) == props

\* The exchange of x-kubernetes-preserve-unknown-fields that ends applyMarkers.
ExchangePreserve(props) ==
    IF props.XPreserveUnknownFields = "true"
    THEN [props EXCEPT
            !.AdditionalProperties =
                IF props.AdditionalProperties = <<>>
                THEN <<[Schema |-> <<>>, Allows |-> TRUE]>>
                ELSE <<[props.AdditionalProperties[1] EXCEPT !.Allows = TRUE]>>,
            !.XPreserveUnknownFields = "nil"]
    ELSE props

\* applyMarkers.  ord.first and ord.rest are the orders in which the two range
\* loops enumerate the marker names.  nerr counts the errors added to ctx.pkg,
\* applied lists the values whose ApplyToSchema was called, in call order.
applyMarkers(markerSet, props, ord) ==
    LET p1 == ApplyPass(InOrder(markerSet, ord.first), TRUE,
                        [node |-> props, nerr |-> 0, applied |-> <<>>])
        p2 == ApplyPass(InOrder(markerSet, ord.rest), FALSE, p1)
    IN [node |-> ExchangePreserve(p2.node), nerr |-> p2.nerr, applied |-> p2.applied]

\* The pairs of enumeration orders of one applyMarkers call.
MarkerOrders(markerSet) ==
    {[first |-> a, rest |-> b] : a \in Orders(DOMAIN markerSet), b \in Orders(DOMAIN markerSet)}

(***************************************************************************)
(* Basic types.                                                            *)
(***************************************************************************)
IntegerKinds == {"int", "int8", "int16", "int32", "int64",
                 "uint", "uint8", "byte", "uint16", "uint32", "uint64"}

FloatKinds == {"float32", "float64"}

\* builtinToType without its look at allowDangerousTypes.
builtinToTypeUngated(basic, allowDangerousTypes) ==
    LET format == CASE basic \in {"int32", "uint32"} -> "int32"
                    [] basic \in {"int64", "uint64"} -> "int64"
                    [] OTHER -> ""
    IN CASE basic = "bool" -> [typ |-> "boolean", format |-> format, err |-> ""]
         [] basic = "string" -> [typ |-> "string", format |-> format, err |-> ""]
         [] basic \in IntegerKinds \cup FloatKinds ->
               [typ |-> IF basic \in FloatKinds THEN "number" ELSE "integer",
                format |-> format, err |-> ""]
         [] OTHER -> [typ |-> "", format |-> "", err |-> "unsupported type"]

\* builtinToType
builtinToType(basic, allowDangerousTypes) ==
    LET format == CASE basic \in {"int32", "uint32"} -> "int32"
                    [] basic \in {"int64", "uint64"} -> "int64"
                    [] OTHER -> ""
    IN CASE basic = "bool" -> [typ |-> "boolean", format |-> format, err |-> ""]
         [] basic = "string" -> [typ |-> "string", format |-> format, err |-> ""]
         [] basic \in IntegerKinds -> [typ |-> "integer", format |-> format, err |-> ""]
         [] basic \in FloatKinds ->
               IF allowDangerousTypes
               THEN [typ |-> "number", format |-> format, err |-> ""]
               ELSE [typ |-> "", format |-> "", err |-> "found float"]
         [] OTHER -> [typ |-> "", format |-> "", err |-> "unsupported type"]

(***************************************************************************)
(* Documents, definition names and reference links.                        *)
(***************************************************************************)
externalDocumentName == "external.json"

\* GeneratorContext.documentNameFor, reading the marker cache pm.
documentNameFor(pkg, pm) ==
    IF pkg \in DOMAIN pm /\ HasMarker(pm[pkg], schemaMarkerName)
    THEN PkgName(pkg) \o ".json"
    ELSE externalDocumentName

\* qualifiedName: the path with "/" replaced by "~1", then "~0", then the name.
qualifiedName(pkgSegs, typeName) ==
    IF JoinWith(pkgSegs, "/") # ""
    THEN JoinWith(pkgSegs, "~1") \o "~0" \o typeName
    ELSE typeName

\* GeneratorContext.definitionNameFor
definitionNameFor(documentName, typeIdent) ==
    IF documentName = externalDocumentName
    THEN qualifiedName(NonVendorSegs(G.pkgs[typeIdent.pkg].path), typeIdent.name)
    ELSE typeIdent.name

\* GeneratorContext.TypeRefLink, reading the marker cache pm and objectPkgs op.
TypeRefLink(from, to, pm, op) ==
    LET fromDocument == documentNameFor(from, pm)
        toDocument == documentNameFor(to.pkg, pm)
        prefix == IF fromDocument # toDocument
                  THEN toDocument \o "#/definitions/"
                  ELSE "#/definitions/"
        suffix == IF indexOf(PkgPath(to.pkg), op) = 0
                  THEN definitionNameFor(toDocument, to)
                  ELSE to.name
    IN prefix \o suffix

(***************************************************************************)
(* The synthesizer (schema.go).  A type expression is a record with kind   *)
(* k: "ident" and "sel" carry the type checker's answer res (invalid,      *)
(* basic with its kind, named with its TypeIdent, or other), "array" its   *)
(* element elt and whether it has a length, "map" its key's type           *)
(* information and its value val, "star" its pointee x; "struct" and       *)
(* "iface" carry nothing.                                                  *)
(*                                                                         *)
(* A result is the node, the errors added (in order, each with the package *)
(* it is added to), the links computed, and whether the call panics.       *)
(***************************************************************************)
Res(node, errs, refs, panic) ==
    [node |-> node, errs |-> errs, refs |-> refs, panic |-> panic, applies |-> {}]

\* The record of one call of applyMarkers: the markers it was given, the node
\* before and after, and the markers it applied, in order.
Applied(markerSet, before, am) ==
    IF DOMAIN markerSet = {} THEN {}
    ELSE {[markers |-> markerSet, before |-> before, after |-> am.node,
           applied |-> am.applied]}

Err(p, kind) == [pkg |-> p, kind |-> kind]

Panic == Res(EmptyNode, <<>>, {}, TRUE)

\* n copies of the error e
RECURSIVE Times(_, _)
Times(n, e) == IF n = 0 THEN <<>> ELSE <<e>> \o Times(n - 1, e)

\* schemaContext: the package, the Doc and Markers of info, and whether info is
\* the empty TypeInfo of ForInfo(&markers.TypeInfo{}), whose RawSpec is nil.
newSchemaContext(pkg, info) ==
    [pkg |-> pkg, doc |-> info.Doc, markers |-> info.Markers, fresh |-> FALSE]

ForEmptyInfo(c) == [pkg |-> c.pkg, doc |-> "", markers |-> NoMarkers, fresh |-> TRUE]

NoOrder == [first |-> <<>>, rest |-> <<>>]

\* The end of localNamedToSchema and namedToSchema: request the schema of the
\* named type, then link to it.  env holds parser.Types' packages after the
\* request (ld), the marker cache (pm) and objectPkgs (op).  When the request is
\* for a type without info, NeedSchemaFor adds an error to the type's package.
refToSchema(c, to, env) ==
    LET link == TypeRefLink(c.pkg, to, env.pm, env.op)
    IN Res([EmptyNode EXCEPT !.Ref = link],
           IF to \in TypesOf(env.ld \cup {to.pkg}) THEN <<>>
           ELSE <<Err(to.pkg, "unknown type")>>,
           {[from |-> c.pkg, to |-> to, link |-> link,
             fromDoc |-> documentNameFor(c.pkg, env.pm),
             toDoc |-> documentNameFor(to.pkg, env.pm),
             objPkg |-> indexOf(PkgPath(to.pkg), env.op) # 0,
             wip |-> to \in env.wip]},
           FALSE)

\* localNamedToSchema
localNamedToSchema(c, ident, env) ==
    CASE ident.res.t = "invalid" ->
            Res(EmptyNode, <<Err(c.pkg, "unresolved type")>>, {}, FALSE)
      [] ident.res.t = "basic" ->
            LET b == builtinToType(ident.res.kind, env.allow)
            IN Res([EmptyNode EXCEPT !.Type = b.typ, !.Format = b.format],
                   IF b.err = "" THEN <<>> ELSE <<Err(c.pkg, b.err)>>, {}, FALSE)
      [] ident.res.t = "named" -> refToSchema(c, ident.res.id, env)
      [] OTHER -> Panic

\* namedToSchema
namedToSchema(c, named, env) ==
    CASE named.res.t = "invalid" ->
            Res(EmptyNode, <<Err(c.pkg, "unresolved type")>>, {}, FALSE)
      [] named.res.t = "named" -> refToSchema(c, named.res.id, env)
      [] OTHER -> Panic

\* The key check of mapToSchema: a basic string, or a named type whose
\* underlying type is one.
MapKeyIsString(key) ==
    CASE key.t = "basic" -> key.kind = "string"
      [] key.t = "named" -> key.under.t = "basic" /\ key.under.kind = "string"
      [] OTHER -> FALSE

\* eltType == byteType && array.Len == nil
IsByteSlice(array) ==
    /\ ~array.fixed
    /\ array.elt.k = "ident"
    /\ array.elt.res.t = "basic"
    /\ array.elt.res.kind = "byte"

\* The result of typeToSchema once applyMarkers has returned am for the node
\* before.
Marked(c, r, before, am) ==
    [Res(am.node, r.errs \o Times(am.nerr, Err(c.pkg, "marker")), r.refs, FALSE)
        EXCEPT !.applies = r.applies \cup Applied(c.markers, before, am)]

\* The last steps of typeToSchema: the description and the markers of ctx.info.
endTypeToSchema(c, r, ord) ==
    IF r.panic THEN r
    ELSE Marked(c, r, [r.node EXCEPT !.Description = c.doc],
                applyMarkers(c.markers, [r.node EXCEPT !.Description = c.doc],
                             IF DOMAIN c.markers = {} THEN NoOrder ELSE ord))

RECURSIVE typeToSchema(_, _, _, _)
RECURSIVE arrayToSchema(_, _, _)
RECURSIVE mapToSchema(_, _, _)

\* arrayToSchema
arrayToSchema(c, array, env) ==
    IF IsByteSlice(array)
    THEN Res([EmptyNode EXCEPT !.Type = "string", !.Format = "byte"], <<>>, {}, FALSE)
    ELSE LET items == typeToSchema(ForEmptyInfo(c), array.elt, env, NoOrder)
         IN IF items.panic THEN Panic
            ELSE Res([EmptyNode EXCEPT !.Type = "array", !.Items = <<items.node>>],
                     items.errs, items.refs, FALSE)

\* mapToSchema
mapToSchema(c, mapType, env) ==
    IF ~MapKeyIsString(mapType.key)
    THEN Res(EmptyNode, <<Err(c.pkg, "map keys must be strings")>>, {}, FALSE)
    ELSE LET val == mapType.val
             valSchema ==
                CASE val.k = "ident" -> localNamedToSchema(ForEmptyInfo(c), val, env)
                  [] val.k = "sel" -> namedToSchema(ForEmptyInfo(c), val, env)
                  [] val.k = "array" -> arrayToSchema(ForEmptyInfo(c), val, env)
                  [] val.k \in {"star", "map"} ->
                        typeToSchema(ForEmptyInfo(c), val, env, NoOrder)
                  [] OTHER -> Panic
         IN IF val.k \notin {"ident", "sel", "array", "star", "map"}
            THEN Res(EmptyNode, <<Err(c.pkg, "not a supported map value type")>>, {}, FALSE)
            ELSE IF valSchema.panic THEN Panic
            ELSE Res([EmptyNode EXCEPT
                        !.Type = "object",
                        !.AdditionalProperties =
                            <<[Schema |-> <<valSchema.node>>, Allows |-> TRUE]>>],
                     valSchema.errs, valSchema.refs, FALSE)

\* typeToSchema for every expression but the struct that is the body of the
\* type under synthesis (the action Field below).  A struct met here is not
\* ctx.info.RawSpec.Type; under the empty TypeInfo, RawSpec is nil and the
\* comparison dereferences it.
typeToSchema(c, rawType, env, ord) ==
    CASE rawType.k = "ident" -> endTypeToSchema(c, localNamedToSchema(c, rawType, env), ord)
      [] rawType.k = "sel" -> endTypeToSchema(c, namedToSchema(c, rawType, env), ord)
      [] rawType.k = "array" -> endTypeToSchema(c, arrayToSchema(c, rawType, env), ord)
      [] rawType.k = "map" -> endTypeToSchema(c, mapToSchema(c, rawType, env), ord)
      [] rawType.k = "star" ->
            endTypeToSchema(c, typeToSchema(c, rawType.x, env, ord), ord)
      [] rawType.k = "struct" ->
            IF c.fresh THEN Panic
            ELSE endTypeToSchema(c,
                    Res([EmptyNode EXCEPT !.Type = "object"],
                        <<Err(c.pkg, "non-top-level struct")>>, {}, FALSE), ord)
      [] OTHER -> Res(EmptyNode, <<Err(c.pkg, "unsupported AST kind")>>, {}, FALSE)

\* The type whose schema synthesizing the expression requests (NilIdent: none).
RECURSIVE RequestOf(_)
RequestOf(e) ==
    CASE e.k \in {"ident", "sel"} -> IF e.res.t = "named" THEN e.res.id ELSE NilIdent
      [] e.k = "array" -> IF IsByteSlice(e) THEN NilIdent ELSE RequestOf(e.elt)
      [] e.k = "map" ->
            IF MapKeyIsString(e.key) /\ e.val.k \in {"ident", "sel", "array", "star", "map"}
            THEN RequestOf(e.val)
            ELSE NilIdent
      [] e.k = "star" -> RequestOf(e.x)
      [] OTHER -> NilIdent

(***************************************************************************)
(* structToSchema, one field at a time.  A field is [Name, hasTag,         *)
(* jsonOpts, Type, Markers, Doc]; jsonOpts is strings.Split(jsonTag, ",").  *)
(***************************************************************************)
\* The skip test, passed only by a field without markers.
IsSkippedUnlessAnnotated(field) ==
    Len(field.jsonOpts) = 1 /\ field.jsonOpts[1] = "-" /\ DOMAIN field.Markers = {}

IsSkipped(field) == Len(field.jsonOpts) = 1 /\ field.jsonOpts[1] = "-"

IsInline(field) ==
    \/ \E i \in 2..Len(field.jsonOpts) : field.jsonOpts[i] = "inline"
    \/ field.jsonOpts[1] = ""

IsOmitEmpty(field) == \E i \in 2..Len(field.jsonOpts) : field.jsonOpts[i] = "omitempty"

\* The required policy without its look at omitempty.
IsRequiredFieldIgnoringOmitEmpty(field, packageMarkers) ==
    IF HasMarker(packageMarkers, OptionalName)
    THEN HasMarker(field.Markers, RequiredName)
    ELSE /\ ~IsInline(field)
         /\ ~HasMarker(field.Markers, OptionalName)
         /\ ~HasMarker(field.Markers, "optional")

\* Whether the required policy of structToSchema lists the field.
IsRequiredField(field, packageMarkers) ==
    IF HasMarker(packageMarkers, OptionalName)
    THEN HasMarker(field.Markers, RequiredName)
    ELSE /\ ~IsInline(field)
         /\ ~IsOmitEmpty(field)
         /\ ~HasMarker(field.Markers, OptionalName)
         /\ ~HasMarker(field.Markers, "optional")

\* The end of an iteration of the loop of structToSchema: the field's schema
\* after applyMarkers returned am for the node before is added to props.
addProperty(c, withReq, field, raw, before, am) ==
    [props |-> IF IsInline(field)
               THEN [withReq EXCEPT !.AllOf = Append(@, am.node)]
               ELSE [withReq EXCEPT !.Properties = MapPut(@, field.jsonOpts[1], am.node)],
     errs |-> raw.errs \o Times(am.nerr, Err(c.pkg, "marker")),
     refs |-> raw.refs,
     panic |-> raw.panic,
     applies |-> IF raw.panic THEN {}
                 ELSE raw.applies \cup Applied(field.Markers, before, am)]

\* An iteration of the loop of structToSchema from the required policy on,
\* for a field whose type has the schema raw.
fieldToProperty(c, packageMarkers, props, field, ord, raw) ==
    addProperty(c,
                IF IsRequiredField(field, packageMarkers)
                THEN [props EXCEPT !.Required = Append(@, field.jsonOpts[1])]
                ELSE props,
                field, raw,
                [raw.node EXCEPT !.Description = field.Doc],
                applyMarkers(field.Markers, [raw.node EXCEPT !.Description = field.Doc],
                             IF DOMAIN field.Markers = {} THEN NoOrder ELSE ord))

\* One iteration of the loop of structToSchema over ctx.info.Fields.
structField(c, packageMarkers, props, field, env, ord) ==
    IF ~field.hasTag
    THEN [props |-> props, errs |-> <<Err(c.pkg, "no JSON tag")>>, refs |-> {},
          panic |-> FALSE, applies |-> {}]
    ELSE IF IsSkipped(field)
    THEN [props |-> props, errs |-> <<>>, refs |-> {}, panic |-> FALSE, applies |-> {}]
    ELSE fieldToProperty(c, packageMarkers, props, field, ord,
                         IF HasMarker(field.Markers, SchemalessName)
                         THEN Res(EmptyNode, <<>>, {}, FALSE)
                         ELSE typeToSchema(ForEmptyInfo(c), field.Type, env, NoOrder))

\* The type a field's synthesis requests.
FieldRequest(field) ==
    IF ~field.hasTag \/ IsSkipped(field) \/ HasMarker(field.Markers, SchemalessName)
    THEN NilIdent
    ELSE RequestOf(field.Type)

(***************************************************************************)
(* The taxonomy walk and the pruning of the generator.                     *)
(***************************************************************************)
Info(t) == G.types[t]

IsObject(t) == HasMarker(Info(t).Markers, objectMarkerName)

\* context.pkgMarkers[pkg].Get(schemaMarker.Name) != nil
IsManaged(pkg, pm) == pkg \in DOMAIN pm /\ HasMarker(pm[pkg], schemaMarkerName)

\* typeToTypeIdent: the named type an expression resolves to, through arrays,
\* map values and pointers.
RECURSIVE typeToTypeIdent(_)
typeToTypeIdent(e) ==
    CASE e.k \in {"ident", "sel"} -> IF e.res.t = "named" THEN e.res.id ELSE NilIdent
      [] e.k = "array" -> typeToTypeIdent(e.elt)
      [] e.k = "map" -> typeToTypeIdent(e.val)
      [] e.k = "star" -> typeToTypeIdent(e.x)
      [] OTHER -> NilIdent

\* getFields with its recursion depth limited to fuel calls.  The walk reads
\* state that it does not change, so a call path longer than the number of
\* types repeats a type and the recursion of the code never ends: the Go
\* runtime stops the program with a stack overflow.
RECURSIVE getFieldsFrom(_, _, _, _, _)
RECURSIVE getFieldsFuel(_, _, _, _)
getFieldsFuel(typ, ld, pm, fuel) ==
    IF fuel = 0 THEN [list |-> <<>>, tax |-> FALSE, overflow |-> TRUE]
    ELSE IF typ \notin TypesOf(ld) THEN [list |-> <<>>, tax |-> FALSE, overflow |-> FALSE]
    ELSE getFieldsFrom(typ, 1, ld, pm, fuel)

\* The loop of getFields from field i on.
getFieldsFrom(typ, i, ld, pm, fuel) ==
    IF i > Len(Info(typ).Fields) THEN [list |-> <<>>, tax |-> FALSE, overflow |-> FALSE]
    ELSE LET typeIdentField == typeToTypeIdent(Info(typ).Fields[i].Type)
             rest == getFieldsFrom(typ, i + 1, ld, pm, fuel)
         IN IF typeIdentField \notin TypesOf(ld) THEN rest
            ELSE IF IsManaged(typeIdentField.pkg, pm)
            THEN [rest EXCEPT !.tax = TRUE]
            ELSE LET child == getFieldsFuel(typeIdentField, ld, pm, fuel - 1)
                 IN IF child.overflow THEN child
                    ELSE IF child.tax
                    THEN [list |-> <<typeIdentField>> \o child.list \o rest.list,
                          tax |-> TRUE,
                          overflow |-> rest.overflow]
                    ELSE rest

\* GeneratorContext.getFields
getFields(typ, ld, pm) == getFieldsFuel(typ, ld, pm, Cardinality(AllTypes) + 1)

\* The removal of one name from v.Required in removeExtraProps: the last
\* element of the slice is written over it in the shared backing array and
\* the slice of the caller's struct value is shortened.
RemoveRequired(h, name) ==
    LET view == SubSeq(h.hr[h.ptr], 1, h.len)
        index == indexOf(name, view)
    IN IF index = 0 THEN h
       ELSE [h EXCEPT !.hr = [@ EXCEPT ![h.ptr] = [@ EXCEPT ![index] = view[h.len]]],
                      !.len = h.len - 1]

\* The loop of removeExtraProps from field i on.  h holds the heap (hp, hr)
\* and the struct value v points to (ptr, len).
RECURSIVE removeFrom(_, _, _, _, _, _)
removeFrom(typeIdent, i, fieldTypes, ld, pm, h) ==
    IF i > Len(Info(typeIdent).Fields) THEN h
    ELSE LET field == Info(typeIdent).Fields[i]
             typeIdentField == typeToTypeIdent(field.Type)
         IN IF IsManaged(typeIdentField.pkg, pm)
            THEN removeFrom(typeIdent, i + 1, fieldTypes, ld, pm, h)
            ELSE IF indexOf(typeIdentField.name, fieldTypes) = 0
                    \/ typeIdentField \notin TypesOf(ld)
            THEN IF ~field.hasTag \/ h.ptr = NoPtr
                 THEN removeFrom(typeIdent, i + 1, fieldTypes, ld, pm, h)
                 ELSE removeFrom(typeIdent, i + 1, fieldTypes, ld, pm,
                        RemoveRequired(
                            [h EXCEPT !.hp = [@ EXCEPT ![h.ptr] = MapDelete(@, field.jsonOpts[1])]],
                            field.jsonOpts[1]))
            ELSE removeFrom(typeIdent, i + 1, fieldTypes, ld, pm, h)

\* GeneratorContext.removeExtraProps on the struct value sv: the heap after it
\* and the struct value the caller is left with.
removeExtraProps(typeIdent, sv, listFields, ld, pm, hp, hr) ==
    LET h0 == [hp |-> hp, hr |-> hr, ptr |-> sv.ptr, len |-> sv.len]
        h == IF typeIdent \in TypesOf(ld)
             THEN removeFrom(typeIdent, 1, [i \in DOMAIN listFields |-> listFields[i].name],
                             ld, pm, h0)
             ELSE h0
    IN [hp |-> h.hp, hr |-> h.hr, sv |-> [sv EXCEPT !.len = h.len]]

\* parser.Schemata[typ]: the zero value for a missing key.
Lookup(typ) ==
    IF typ \in DOMAIN Schemata THEN Schemata[typ] ELSE StructValue(EmptyNode, NoPtr, 0)

\* The loop of Generate over listFields from element i on: each retained type's
\* struct value is pruned and stored in the definitions of the root's document.
RECURSIVE pruneFields(_, _, _, _, _, _)
pruneFields(listFields, i, documentName, hp, hr, defs) ==
    IF i > Len(listFields) THEN [hp |-> hp, hr |-> hr, defs |-> defs]
    ELSE LET fieldType == listFields[i]
             r == removeExtraProps(fieldType, Lookup(fieldType), listFields,
                                   loaded, pkgMarkers, hp, hr)
         IN pruneFields(listFields, i + 1, documentName, r.hp, r.hr,
                        MapPut(defs, definitionNameFor(documentName, fieldType),
                               [sv |-> r.sv, origin |-> fieldType]))

(***************************************************************************)
(* The state machine of Generator.Generate.                                *)
(***************************************************************************)
\* errors counts the errors recorded per package and kind.
RECURSIVE AddErrors(_, _)
AddErrors(errs, new) ==
    IF Len(new) = 0 THEN errs
    ELSE AddErrors(MapPut(errs, Head(new),
                          IF Head(new) \in DOMAIN errs THEN errs[Head(new)] + 1 ELSE 1),
                   Tail(new))

\* markers.PackageMarkers(parser.Collector, pkg)
PackageMarkers(pkg) == G.pkgs[pkg].markers

IsStruct(t) == Info(t).Raw.k = "struct"

\* The frame of one active NeedSchemaFor call: the type, the next field of
\* its struct, the properties built so far, and the node infoToSchema has
\* taken from the markers of a type with a JSON marshaler (<<>>: none).
Frame(t, final) ==
    [typ |-> t, idx |-> 1, props |-> [EmptyNode EXCEPT !.Type = "object"], final |-> final]

Top == stack[Len(stack)]

\* The type the top call requests next (NilIdent: none).
NextRequest(f) ==
    IF f.final # <<>> THEN NilIdent
    ELSE IF IsStruct(f.typ)
    THEN IF f.idx <= Len(Info(f.typ).Fields)
         THEN FieldRequest(Info(f.typ).Fields[f.idx])
         ELSE NilIdent
    ELSE RequestOf(Info(f.typ).Raw)

\* NeedSchemaFor without its look at the ledger.
NeedsSynthesisUnchecked(typ) == typ \in AllTypes

\* NeedSchemaFor taking only an entry in progress for a known schema.
NeedsSynthesisOfFinished(typ) ==
    typ \in AllTypes /\ typ \notin {stack[i].typ : i \in DOMAIN stack}

\* The guards of NeedSchemaFor: a schema is synthesized for a type that has no
\* ledger entry and has info once its package is indexed.
NeedsSynthesis(typ) == typ \notin DOMAIN Schemata /\ typ \in AllTypes

\* parser.NeedPackage
NeedPackage(pkg) == IF pkg \in PkgIds THEN loaded \cup {pkg} ELSE loaded

Env(ld) ==
    [ld |-> ld, pm |-> pkgMarkers, op |-> objectPkgs, allow |-> G.allowDangerousTypes,
     wip |-> {stack[i].typ : i \in DOMAIN stack}]

\* One more store under the key k.
Bump(m, k) == MapPut(m, k, IF k \in DOMAIN m THEN m[k] + 1 ELSE 1)

\* NeedSchemaFor(typ) without the empty schema it stores before it recurses.
EnterNoPlaceholder(typ, ops) ==
    /\ loaded' = NeedPackage(typ.pkg)
    /\ Schemata' = Schemata
    /\ pkgMarkers' = MapPut(pkgMarkers, typ.pkg, PackageMarkers(typ.pkg))
    /\ errors' = errors
    /\ stack' = Append(stack, Frame(typ, <<>>))
    /\ expanded' = [expanded EXCEPT ![typ] = @ + 1]
    /\ objectPkgs' = ops
    /\ writes' = [writes EXCEPT !.markers = Bump(@, typ.pkg)]
    /\ applyLog' = applyLog

\* NeedSchemaFor(typ) up to its call of typeToSchema: the package is indexed,
\* the empty schema is stored, the package markers are cached, and infoToSchema
\* applies the markers of a type that implements json.Marshaler.
Enter(typ, ops) ==
    \E ord \in (IF Info(typ).marshaler /\ DOMAIN Info(typ).Markers # {}
                THEN MarkerOrders(Info(typ).Markers) ELSE {NoOrder}) :
        LET am == IF Info(typ).marshaler
                  THEN applyMarkers(Info(typ).Markers, EmptyNode, ord)
                  ELSE [node |-> EmptyNode, nerr |-> 0, applied |-> <<>>]
        IN /\ loaded' = NeedPackage(typ.pkg)
           /\ Schemata' = MapPut(Schemata, typ, StructValue(EmptyNode, NoPtr, 0))
           /\ pkgMarkers' = MapPut(pkgMarkers, typ.pkg, PackageMarkers(typ.pkg))
           /\ errors' = AddErrors(errors, Times(am.nerr, Err(typ.pkg, "marker")))
           /\ stack' = Append(stack, Frame(typ, IF am.node.Type # "" THEN <<am.node>> ELSE <<>>))
           /\ expanded' = [expanded EXCEPT ![typ] = @ + 1]
           /\ objectPkgs' = ops
           /\ writes' = [ledger |-> Bump(writes.ledger, typ),
                         markers |-> Bump(writes.markers, typ.pkg)]
           /\ applyLog' = applyLog \cup
                    (IF Info(typ).marshaler
                     THEN Applied(Info(typ).Markers, EmptyNode, am) ELSE {})

\* Generate, "Load input packages".
LoadRoots ==
    /\ pc = "load"
    /\ pc' = "scan"
    /\ loaded' = G.roots
    /\ pkgMarkers' = [r \in G.roots |-> PackageMarkers(r)]
    /\ scanStart' = TypesOf(G.roots)
    /\ writes' = [writes EXCEPT !.markers = [r \in G.roots |-> 1]]
    /\ UNCHANGED <<graph, Schemata, heapProps, heapReq, objectPkgs, errors, documents,
                   stack, scanned, assembled, expanded, refLog, built, applyLog>>
    /\ UNCHANGED previous

\* Generate, one iteration of "Scan loaded types" up to the return of the
\* first NeedSchemaFor that synthesizes; a second request of the same type
\* finds its ledger entry.
ScanType(typeIdent) ==
    /\ pc = "scan"
    /\ stack = <<>>
    /\ typeIdent \in Types \ scanned
    /\ scanned' = scanned \cup {typeIdent}
    /\ LET ops == IF IsObject(typeIdent)
                  THEN Append(objectPkgs, PkgPath(typeIdent.pkg))
                  ELSE objectPkgs
           requested == IsObject(typeIdent) \/ IsManaged(typeIdent.pkg, pkgMarkers)
       IN IF requested /\ NeedsSynthesis(typeIdent)
          THEN Enter(typeIdent, ops)
          ELSE /\ objectPkgs' = ops
               /\ UNCHANGED <<loaded, Schemata, pkgMarkers, errors, stack, expanded,
                              writes, applyLog>>
    /\ UNCHANGED <<graph, pc, heapProps, heapReq, documents, scanStart, assembled, refLog,
                   built>>
    /\ UNCHANGED previous

\* The call of NeedSchemaFor by localNamedToSchema or namedToSchema for a type
\* that has no ledger entry yet.
Call ==
    /\ pc = "scan"
    /\ stack # <<>>
    /\ NextRequest(Top) # NilIdent
    /\ NeedsSynthesis(NextRequest(Top))
    /\ Enter(NextRequest(Top), objectPkgs)
    /\ UNCHANGED <<graph, pc, heapProps, heapReq, documents, scanStart, scanned,
                   assembled, refLog, built>>
    /\ UNCHANGED previous

\* The effect of an iteration of the loop of structToSchema with result r.
FieldDone(ld, r) ==
    /\ loaded' = ld
    /\ errors' = AddErrors(errors, r.errs)
    /\ refLog' = refLog \cup r.refs
    /\ applyLog' = applyLog \cup r.applies
    /\ IF r.panic
       THEN pc' = "crashed" /\ stack' = stack
       ELSE /\ pc' = pc
            /\ stack' = [stack EXCEPT ![Len(stack)] =
                             [@ EXCEPT !.idx = @ + 1, !.props = r.props]]

\* One iteration of the loop of structToSchema, once the type the field
\* refers to needs no synthesis.
Field ==
    /\ pc = "scan"
    /\ stack # <<>>
    /\ Top.final = <<>>
    /\ IsStruct(Top.typ)
    /\ Top.idx <= Len(Info(Top.typ).Fields)
    /\ LET typ == Top.typ
           field == Info(typ).Fields[Top.idx]
           to == FieldRequest(field)
           ld == IF to = NilIdent THEN loaded ELSE NeedPackage(to.pkg)
       IN /\ to = NilIdent \/ ~NeedsSynthesis(to)
          /\ \E ord \in MarkerOrders(field.Markers) :
                FieldDone(ld, structField(newSchemaContext(typ.pkg, Info(typ)),
                                          PackageMarkers(typ.pkg), Top.props, field,
                                          Env(ld), ord))
    /\ UNCHANGED <<graph, Schemata, heapProps, heapReq, pkgMarkers, objectPkgs, documents,
                   scanStart, scanned, assembled, expanded, built, writes>>
    /\ UNCHANGED previous

\* The store of the schema r of typ in the ledger; the properties and the
\* required list of a struct (onHeap) are the map and the array the stored
\* value points to.
Store(typ, ld, onHeap, r) ==
    /\ loaded' = ld
    /\ errors' = AddErrors(errors, r.errs)
    /\ refLog' = refLog \cup r.refs
    /\ applyLog' = applyLog \cup r.applies
    /\ IF r.panic
       THEN /\ pc' = "crashed"
            /\ UNCHANGED <<stack, Schemata, heapProps, heapReq, writes>>
       ELSE /\ pc' = pc
            /\ writes' = [writes EXCEPT !.ledger = Bump(@, typ)]
            /\ stack' = SubSeq(stack, 1, Len(stack) - 1)
            /\ Schemata' =
                 [Schemata EXCEPT ![typ] =
                     IF onHeap
                     THEN StructValue([r.node EXCEPT !.Properties = EmptyMap,
                                                     !.Required = <<>>],
                                      typ, Len(r.node.Required))
                     ELSE StructValue(r.node, NoPtr, 0)]
            /\ heapProps' = IF onHeap THEN MapPut(heapProps, typ, r.node.Properties)
                            ELSE heapProps
            /\ heapReq' = IF onHeap THEN MapPut(heapReq, typ, r.node.Required)
                          ELSE heapReq

\* The return of NeedSchemaFor: the rest of typeToSchema for the body of the
\* type, and the store of the schema in the ledger.
Return ==
    /\ pc = "scan"
    /\ stack # <<>>
    /\ LET typ == Top.typ
           to == NextRequest(Top)
           ld == IF to = NilIdent THEN loaded ELSE NeedPackage(to.pkg)
           c == newSchemaContext(typ.pkg, Info(typ))
       IN /\ to = NilIdent \/ ~NeedsSynthesis(to)
          /\ Top.final = <<>> /\ IsStruct(typ) => Top.idx > Len(Info(typ).Fields)
          /\ \E ord \in MarkerOrders(Info(typ).Markers) :
                Store(typ, ld, Top.final = <<>> /\ IsStruct(typ),
                      IF Top.final # <<>> THEN Res(Top.final[1], <<>>, {}, FALSE)
                      ELSE IF IsStruct(typ)
                      THEN endTypeToSchema(c, Res(Top.props, <<>>, {}, FALSE), ord)
                      ELSE typeToSchema(c, Info(typ).Raw, Env(ld), ord))
    /\ UNCHANGED <<graph, pkgMarkers, objectPkgs, documents, scanStart, scanned,
                   assembled, expanded, built>>
    /\ UNCHANGED previous

\* The scan loop ends once it has produced every type parser.Types held when
\* it started; a type indexed during the loop may be produced or skipped.
EndScan ==
    /\ pc = "scan"
    /\ stack = <<>>
    /\ scanStart \subseteq scanned
    /\ pc' = "assemble"
    /\ built' = [hp |-> heapProps, hr |-> heapReq]
    /\ UNCHANGED <<graph, loaded, Schemata, heapProps, heapReq, pkgMarkers, objectPkgs,
                   errors, documents, stack, scanStart, scanned, assembled, expanded, refLog,
                   writes, applyLog>>
    /\ UNCHANGED previous

\* A document: its title, its own schema (the deep copy of a pruned root; the
\* zero value for a partition document), the object root it was created for
\* (NilIdent for a partition document) and its definitions, each with the type
\* it was stored for.
NewDocument(title, root, object) ==
    [Title |-> title, root |-> root, object |-> object, Definitions |-> EmptyMap]

PutDefinition(docs, documentName, name, sv, origin) ==
    [docs EXCEPT ![documentName].Definitions = MapPut(@, name, [sv |-> sv, origin |-> origin])]

\* Generate, one iteration of the loop over parser.Schemata.
AssembleType(typeIdent) ==
    /\ pc = "assemble"
    /\ typeIdent \in DOMAIN Schemata \ assembled
    /\ assembled' = assembled \cup {typeIdent}
    /\ LET documentName == documentNameFor(typeIdent.pkg, pkgMarkers)
           docs0 == IF documentName \in DOMAIN documents THEN documents
                    ELSE MapPut(documents, documentName, NewDocument(documentName, EmptyNode, NilIdent))
           docs1 == PutDefinition(docs0, documentName,
                                  definitionNameFor(documentName, typeIdent),
                                  Schemata[typeIdent], typeIdent)
       IN IF ~(typeIdent \in Types /\ IsObject(typeIdent))
          THEN /\ documents' = docs1
               /\ UNCHANGED <<pc, heapProps, heapReq>>
          ELSE LET got == getFields(typeIdent, loaded, pkgMarkers)
                   listFields == got.list
                   schemaPtr == Schemata[typeIdent]
                   rootName == schemaPtr.node.Title \o ".json"
                   r == removeExtraProps(typeIdent, schemaPtr, listFields,
                                         loaded, pkgMarkers, heapProps, heapReq)
                   docs2 == IF rootName \in DOMAIN docs1 THEN docs1
                            ELSE MapPut(docs1, rootName,
                                        NewDocument(rootName,
                                            [View(r.sv, r.hp, r.hr) EXCEPT !.Title = rootName],
                                            typeIdent))
                   p == pruneFields(listFields, 1, rootName, r.hp, r.hr,
                                    docs2[rootName].Definitions)
               IN IF got.overflow
                  THEN /\ pc' = "crashed"
                       /\ documents' = docs1
                       /\ UNCHANGED <<heapProps, heapReq>>
                  ELSE /\ pc' = pc
                       /\ documents' = [docs2 EXCEPT ![rootName].Definitions = p.defs]
                       /\ heapProps' = p.hp
                       /\ heapReq' = p.hr
    /\ UNCHANGED <<graph, loaded, Schemata, pkgMarkers, objectPkgs, errors, stack,
                   scanStart, scanned, expanded, refLog, built, writes, applyLog>>
    /\ UNCHANGED previous

\* Generate, g.output(documents) after the last iteration.
Output ==
    /\ pc = "assemble"
    /\ assembled = DOMAIN Schemata
    /\ pc' = "done"
    /\ UNCHANGED <<graph, loaded, Schemata, heapProps, heapReq, pkgMarkers, objectPkgs,
                   errors, documents, stack, scanStart, scanned, assembled, expanded, refLog,
                   built, writes, applyLog>>
    /\ UNCHANGED previous

(***************************************************************************)
(* The specification.                                                      *)
(***************************************************************************)
Init ==
    /\ graph \in Graphs
    /\ pc = "load"
    /\ loaded = {}
    /\ Schemata = EmptyMap
    /\ heapProps = EmptyMap
    /\ heapReq = EmptyMap
    /\ pkgMarkers = EmptyMap
    /\ objectPkgs = <<>>
    /\ errors = EmptyMap
    /\ documents = EmptyMap
    /\ stack = <<>>
    /\ scanStart = {}
    /\ scanned = {}
    /\ assembled = {}
    /\ expanded = [t \in AllTypes |-> 0]
    /\ refLog = {}
    /\ built = [hp |-> EmptyMap, hr |-> EmptyMap]
    /\ writes = [ledger |-> EmptyMap, markers |-> EmptyMap]
    /\ applyLog = {}
    /\ previous = <<>>

Next ==
    \/ LoadRoots
    \/ \E typeIdent \in AllTypes : ScanType(typeIdent)
    \/ Call
    \/ Field
    \/ Return
    \/ EndScan
    \/ \E typeIdent \in AllTypes : AssembleType(typeIdent)
    \/ Output

Spec == Init /\ [][Next]_vars

\* What a run of Generate leaves: the keys of the ledger, every link computed,
\* and the documents handed to output with their definitions.
Outcome ==
    [ledger |-> DOMAIN Schemata,
     refs |-> {[from |-> r.from, to |-> r.to, link |-> r.link] : r \in refLog},
     documents |->
        [d \in DOMAIN documents |->
            [root |-> documents[d].root,
             definitions |->
                [k \in DOMAIN documents[d].Definitions |->
                    View(documents[d].Definitions[k].sv, heapProps, heapReq)]]]]

\* Generate is run again on the same packages, with a new parser and a new
\* context; the result of the run that ended is kept.
RunAgain ==
    /\ pc = "done"
    /\ Len(previous) < MaxRuns - 1
    /\ previous' = Append(previous, Outcome)
    /\ pc' = "load"
    /\ loaded' = {}
    /\ Schemata' = EmptyMap
    /\ heapProps' = EmptyMap
    /\ heapReq' = EmptyMap
    /\ pkgMarkers' = EmptyMap
    /\ objectPkgs' = <<>>
    /\ errors' = EmptyMap
    /\ documents' = EmptyMap
    /\ stack' = <<>>
    /\ scanStart' = {}
    /\ scanned' = {}
    /\ assembled' = {}
    /\ expanded' = [t \in AllTypes |-> 0]
    /\ refLog' = {}
    /\ built' = [hp |-> EmptyMap, hr |-> EmptyMap]
    /\ writes' = [ledger |-> EmptyMap, markers |-> EmptyMap]
    /\ applyLog' = {}
    /\ UNCHANGED graph

NextRuns == Next \/ RunAgain

\* Several runs of Generate on one input.
Runs == Init /\ [][NextRuns]_vars

(***************************************************************************)
(* What the properties read.                                               *)
(***************************************************************************)
\* A node and every node nested in it.
RECURSIVE NodesOf(_)
NodesOf(node) ==
    {node}
    \cup UNION {NodesOf(node.Properties[k]) : k \in DOMAIN node.Properties}
    \cup UNION {NodesOf(node.Items[i]) : i \in DOMAIN node.Items}
    \cup UNION {NodesOf(node.AllOf[i]) : i \in DOMAIN node.AllOf}
    \cup UNION {UNION {NodesOf(node.AdditionalProperties[i].Schema[j]) :
                        j \in DOMAIN node.AdditionalProperties[i].Schema} :
                 i \in DOMAIN node.AdditionalProperties}

\* The schema of a ledger entry as a reader of the ledger sees it.
LedgerNode(t) == View(Schemata[t], heapProps, heapReq)

\* The schema of a ledger entry as the scan left it.
BuiltNode(t) == View(Schemata[t], built.hp, built.hr)

\* The top-level schemas of the documents: each definition, and the schema of
\* each pruned root.
DocumentSchemas ==
    UNION {{View(documents[d].Definitions[k].sv, heapProps, heapReq) :
                k \in DOMAIN documents[d].Definitions} \cup {documents[d].root} :
           d \in DOMAIN documents}

\* Every schema node of the ledger, of the calls in progress and of the documents.
AllNodes ==
    UNION {NodesOf(LedgerNode(t)) : t \in DOMAIN Schemata}
    \cup UNION {NodesOf(stack[i].props) : i \in DOMAIN stack}
    \cup UNION {NodesOf(n) : n \in DocumentSchemas}

\* The types with an active NeedSchemaFor call.
InProgress == {stack[i].typ : i \in DOMAIN stack}

\* The documents of the partition and those of the object roots.
PartitionDocs == {d \in DOMAIN documents : documents[d].object = NilIdent}

PrunedDocs == {d \in DOMAIN documents : documents[d].object # NilIdent}

RECURSIVE SumOver(_, _)
SumOver(S, f) ==
    IF S = {} THEN 0
    ELSE LET x == CHOOSE y \in S : TRUE IN f[x] + SumOver(S \ {x}, f)

(***************************************************************************)
(* C1: cycle safety.                                                       *)
(***************************************************************************)
\* The steps one active call still has to take: one per field left, and its return.
FrameWork(f) ==
    IF f.final = <<>> /\ IsStruct(f.typ) THEN Len(Info(f.typ).Fields) - f.idx + 2 ELSE 1

\* A bound on the steps the synthesis still takes: the work of the active
\* calls and, for every type without a ledger entry, its call, its fields and
\* its return.
Measure ==
    SumOver(AllTypes \ DOMAIN Schemata, [t \in AllTypes |-> Len(Info(t).Fields) + 3])
    + SumOver(DOMAIN stack, [i \in DOMAIN stack |-> FrameWork(stack[i])])

\* No type is synthesized twice, no type has two active calls, every active
\* call has its ledger entry, and a reference made while its target was in
\* progress is a $ref node with nothing inlined.
CycleSafe ==
    /\ \A t \in AllTypes : expanded[t] <= 1
    /\ \A i, j \in DOMAIN stack : stack[i].typ = stack[j].typ => i = j
    /\ InProgress \subseteq DOMAIN Schemata
    /\ Measure >= 0
    /\ \A r \in refLog : r.wip =>
          /\ r.link # ""
          /\ \E n \in AllNodes : n.Ref = r.link /\ n.Type = "" /\ n.Properties = EmptyMap
                                 /\ n.Items = <<>>

\* Every step of a synthesis uses up some of the work that is left.
Progress == stack' # stack => Measure' < Measure

\* C1: NeedSchemaFor terminates on every type graph, cyclic ones included: each
\* step of a synthesis lowers a bound on the steps left, no type identity is
\* expanded more than once, and a reference to a type whose synthesis is in
\* progress is emitted as a $ref node.
C1_CycleSafety == [](CycleSafe) /\ [][Progress]_vars

\* A ring of two or more types has been synthesized: every type once, the
\* reference that closes the ring made while its target was in progress.
C1_Witness ==
    /\ graph.name.family = "ring"
    /\ graph.name.n >= 2
    /\ pc = "scan"
    /\ stack = <<>>
    /\ \A t \in AllTypes : expanded[t] = 1
    /\ \E r \in refLog : r.wip

(***************************************************************************)
(* C2: idempotent memoization.                                             *)
(***************************************************************************)
\* The step is an iteration of the scan loop that calls NeedSchemaFor(t).
ScanRequests(t) ==
    /\ pc = "scan"
    /\ stack = <<>>
    /\ t \in Types \ scanned
    /\ scanned' = scanned \cup {t}
    /\ IsObject(t) \/ IsManaged(t.pkg, pkgMarkers)

\* The step is one of the active call in which it calls NeedSchemaFor(t).
InnerRequests(t) ==
    /\ pc = "scan"
    /\ stack # <<>>
    /\ stack' # stack \/ pc' # pc
    /\ NextRequest(Top) = t

\* A request for a type that has a ledger entry starts no synthesis and leaves
\* the ledger as it is; the call that makes the request may then store its own
\* finished schema.  An entry whose synthesis has returned never changes, so
\* every later request finds the same node.
Memoized ==
    /\ \A t \in DOMAIN Schemata :
          /\ ScanRequests(t) =>
                /\ Schemata' = Schemata
                /\ expanded' = expanded
                /\ stack' = stack
                /\ heapProps' = heapProps /\ heapReq' = heapReq
          /\ InnerRequests(t) =>
                /\ expanded' = expanded
                /\ Len(stack') <= Len(stack)
                /\ DOMAIN Schemata' = DOMAIN Schemata
                /\ \A u \in DOMAIN Schemata \ {Top.typ} : Schemata'[u] = Schemata[u]
    /\ \A u \in DOMAIN Schemata \ InProgress :
          u \in DOMAIN Schemata' /\ Schemata'[u] = Schemata[u]

\* C2: NeedSchemaFor for a TypeIdent that is a key of the ledger leaves the
\* ledger unchanged and synthesizes nothing, so each TypeIdent keeps the one
\* node it was given and two requests for it observe the same node.
C2_IdempotentMemoization == [][Memoized]_vars

\* A type was requested again after its schema was stored: the scan has
\* produced two types of a ring of the taxonomy package, and the synthesis of
\* the first had already reached the second.
C2_Witness ==
    /\ graph.name.family = "ring"
    /\ graph.name.p = "tax"
    /\ graph.name.n >= 2
    /\ pc = "scan"
    /\ stack = <<>>
    /\ Cardinality(scanned) >= 2
    /\ DOMAIN Schemata = AllTypes
    /\ \A t \in AllTypes : expanded[t] = 1

(***************************************************************************)
(* C3 and C4: pruning.                                                     *)
(***************************************************************************)
\* C3: once the assembly has pruned, the schemas of the ledger and the
\* definitions of the partition documents still have every property and every
\* required entry the scan gave them; only the copies in the documents of the
\* object roots have lost properties.
C3_PruningOnCopies ==
    pc \in {"assemble", "done"} =>
        /\ \A t \in DOMAIN Schemata : LedgerNode(t) = BuiltNode(t)
        /\ \A d \in PartitionDocs : \A k \in DOMAIN documents[d].Definitions :
              LET sv == documents[d].Definitions[k].sv
              IN View(sv, heapProps, heapReq) = View(sv, built.hp, built.hr)

\* The retained type set of an object root.
Retained(root) == Range(getFields(root, loaded, pkgMarkers).list)

\* The names of the properties the scan gave type t whose field resolves to a
\* type of a taxonomy package or to a retained type of root.
ExpectedProperties(root, t) ==
    {f.jsonOpts[1] : f \in
        {g \in Range(Info(t).Fields) :
            /\ g.jsonOpts[1] \in DOMAIN built.hp[t]
            /\ LET id == typeToTypeIdent(g.Type)
               IN IsManaged(id.pkg, pkgMarkers) \/ id \in Retained(root)}}

\* The pruned schema of type t in the document of root is what the claim
\* says: the expected properties, and the required names of the scan without
\* the names of the deleted properties.
PrunedAsSpecified(root, t, node) ==
    t \in DOMAIN built.hp =>
        /\ DOMAIN node.Properties = ExpectedProperties(root, t)
        /\ Range(node.Required) =
              Range(built.hr[t]) \ (DOMAIN built.hp[t] \ ExpectedProperties(root, t))

\* C4: in the pruned schema of an object root and of each retained type, a
\* property is present exactly when its field's type identity is in a taxonomy
\* package or in the root's retained set, and required has lost exactly the
\* names of the deleted properties.
C4_TaxonomyPruning ==
    \A d \in PrunedDocs :
        LET root == documents[d].object
        IN /\ PrunedAsSpecified(root, root, documents[d].root)
           /\ \A k \in DOMAIN documents[d].Definitions :
                 LET def == documents[d].Definitions[k]
                 IN PrunedAsSpecified(root, def.origin, View(def.sv, heapProps, heapReq))

(***************************************************************************)
(* C5 and C6: the shape of a node.                                         *)
(***************************************************************************)
\* C5: in every schema held in the ledger or in a document, after its
\* construction and after pruning, each name of required is a key of
\* properties.
C5_RequiredWithinProperties ==
    \A n \in {LedgerNode(t) : t \in DOMAIN Schemata} \cup DocumentSchemas :
        Range(n.Required) \subseteq DOMAIN n.Properties

\* C6: no node has $ref together with a type, properties or items.
C6_RefExcludesContent ==
    \A n \in AllNodes :
        n.Ref # "" => n.Type = "" /\ n.Properties = EmptyMap /\ n.Items = <<>>

(***************************************************************************)
(* C7: the reference string.                                               *)
(***************************************************************************)
\* The package declares a type with the object marker.
HasObjectRoot(pkg) == \E t \in AllTypes : t.pkg = pkg /\ IsObject(t)

\* The document of a package by its markers.
DocumentOf(pkg) ==
    IF HasMarker(PackageMarkers(pkg), schemaMarkerName)
    THEN PkgName(pkg) \o ".json"
    ELSE externalDocumentName

\* C7: a link from package A to type B is #/definitions/<B's definition name
\* in its document> when both have the same document, and otherwise <B's
\* document>#/definitions/<suffix>, the suffix being B's bare name when B's
\* package has an object root and B's definition name when it has none.
C7_ReferenceString ==
    \A r \in refLog :
        r.to \in AllTypes =>
            r.link = IF DocumentOf(r.from) = DocumentOf(r.to.pkg)
                     THEN "#/definitions/" \o definitionNameFor(DocumentOf(r.to.pkg), r.to)
                     ELSE DocumentOf(r.to.pkg) \o "#/definitions/"
                          \o (IF HasObjectRoot(r.to.pkg) THEN r.to.name
                              ELSE definitionNameFor(DocumentOf(r.to.pkg), r.to))

(***************************************************************************)
(* C8: the required policy.                                                *)
(***************************************************************************)
\* The name a field is serialized under: the first element of its json tag,
\* its Go name without a tag.
SerializedName(f) == IF f.hasTag THEN f.jsonOpts[1] ELSE f.Name

Tagged(f) == f.hasTag

Skipped(f) == f.hasTag /\ f.jsonOpts = <<"-">>

Inline(f) == "inline" \in Range(Tail(f.jsonOpts)) \/ f.jsonOpts[1] = ""

OmitEmpty(f) == "omitempty" \in Range(Tail(f.jsonOpts))

AnnotatedOptional(f) == {OptionalName, "optional"} \cap DOMAIN f.Markers # {}

AnnotatedRequired(f) == RequiredName \in DOMAIN f.Markers

OptionalByDefault(pkg) == OptionalName \in DOMAIN PackageMarkers(pkg)

\* The struct types whose schema the scan has built.
BuiltStructs == IF pc = "scan" THEN DOMAIN heapReq ELSE {}

\* The required list of a struct holds the serialized names of the fields that
\* satisfy cond, and no other name.
RequiredExactly(t, cond(_)) ==
    Range(heapReq[t]) = {SerializedName(f) : f \in {g \in Range(Info(t).Fields) : cond(g)}}

\* The policy of a package that is required by default.
RequiredByPolicy(f) ==
    Tagged(f) /\ ~Skipped(f) /\ ~Inline(f) /\ ~OmitEmpty(f) /\ ~AnnotatedOptional(f)

\* C8 as stated: without the optional-default marker, required holds a
\* field's name iff the field is tagged, not skipped, not inline, not omitempty
\* and not annotated optional; with the marker, iff the field is annotated
\* required.
C8_AsStated ==
    \A t \in BuiltStructs :
        IF OptionalByDefault(t.pkg)
        THEN RequiredExactly(t, AnnotatedRequired)
        ELSE RequiredExactly(t, RequiredByPolicy)

\* The policy of a package that is optional by default, as the code has it.
RequiredWhenOptional(f) == Tagged(f) /\ ~Skipped(f) /\ AnnotatedRequired(f)

\* C8, amended: without the optional-default marker, required holds a name iff
\* it is the serialized name of a field that is tagged, not skipped, not
\* inline, not omitempty and not annotated optional; with the marker, iff it is
\* the serialized name of a field that is tagged, not skipped and annotated
\* required.
C8_RequiredPolicy ==
    \A t \in BuiltStructs :
        IF OptionalByDefault(t.pkg)
        THEN RequiredExactly(t, RequiredWhenOptional)
        ELSE RequiredExactly(t, RequiredByPolicy)

\* The struct of the optional-by-default package has been synthesized: of its
\* fields annotated required, the omitempty one and the inline one are listed,
\* the skipped one and the untagged one are not.
C8_Witness ==
    /\ graph.name = [family |-> "policy", p |-> "opt"]
    /\ pc = "scan"
    /\ TypeIdent("opt", "P") \in DOMAIN heapReq
    /\ heapReq[TypeIdent("opt", "P")] = <<"req", "emb">>

(***************************************************************************)
(* C9 and C10: the documents.                                              *)
(***************************************************************************)
\* The partition documents that hold a definition stored for type t and not
\* overwritten since.
DefinedIn(t) ==
    {d \in PartitionDocs :
        \E k \in DOMAIN documents[d].Definitions : documents[d].Definitions[k].origin = t}

\* C9: after the assembly, every type of the ledger is a definition of exactly
\* one partition document: <package name>.json when its package has the
\* taxonomy marker, external.json when it has not.
C9_DocumentPartition ==
    pc = "done" => \A t \in DOMAIN Schemata : DefinedIn(t) = {DocumentOf(t.pkg)}

\* The types the assembly stores in document d: the ledger types of the
\* packages it stands for, or the retained types of its object root.
AssignedTo(d) ==
    IF documents[d].object = NilIdent
    THEN {t \in DOMAIN Schemata : documentNameFor(t.pkg, pkgMarkers) = d}
    ELSE Retained(documents[d].object)

\* C10: two distinct TypeIdents assigned to the same document have different
\* definition names, so no definition overwrites another.
C10_CollisionFreeNames ==
    pc = "done" =>
        \A d \in DOMAIN documents : \A t1, t2 \in AssignedTo(d) :
            t1 # t2 => definitionNameFor(d, t1) # definitionNameFor(d, t2)

(***************************************************************************)
(* C11: the coverage of the driver.                                        *)
(***************************************************************************)
\* The definitions of document d that were stored for type t.
DefinitionsOf(d, t) ==
    IF d \in DOMAIN documents
    THEN {k \in DOMAIN documents[d].Definitions : documents[d].Definitions[k].origin = t}
    ELSE {}

\* C11: once the request phase of Generate has finished, every declared type
\* of parser.Types has a ledger entry, and once the documents are assembled it
\* is a definition of its partition document; in particular a type of a
\* scanned package without the taxonomy marker is a definition of
\* external.json.
C11_DriverCoverage ==
    /\ pc \in {"assemble", "done"} => \A t \in Types : t \in DOMAIN Schemata
    /\ pc = "done" =>
          \A t \in Types :
              DefinitionsOf(documentNameFor(t.pkg, pkgMarkers), t) # {}

(***************************************************************************)
(* C12: errors and the traversal.                                          *)
(***************************************************************************)
\* The error that synthesizing the field by itself records ("": none).
ExpectedError(f, allow) ==
    CASE ~Tagged(f) -> "no JSON tag"
      [] Skipped(f) \/ SchemalessName \in DOMAIN f.Markers -> ""
      [] f.Type.k = "iface" -> "unsupported AST kind"
      [] f.Type.k = "struct" -> "non-top-level struct"
      [] f.Type.k = "ident" /\ f.Type.res.t = "invalid" -> "unresolved type"
      [] f.Type.k = "ident" /\ f.Type.res.t = "basic" /\ f.Type.res.kind \in FloatKinds ->
            IF allow THEN "" ELSE "found float"
      [] f.Type.k = "map" /\ f.Type.key # StringKey -> "map keys must be strings"
      [] f.Type.k = "ident" /\ MaxItemsName \in DOMAIN f.Markers -> "marker"
      [] OTHER -> ""

\* The run has ended inside a synthesis.
SynthesisAborted == pc = "crashed" /\ stack # <<>>

\* C12: an error recorded while one field is synthesized never aborts the
\* traversal: no synthesis ends the run; in every finished struct the error of
\* each failing field is recorded on the struct's package and every tagged
\* field that is not skipped has its node (properties, or allOf when inline);
\* and when the request phase is over every requested type has its finished
\* ledger entry.
C12_ErrorsNeverAbort ==
    /\ ~SynthesisAborted
    /\ pc = "scan" =>
          \A t \in DOMAIN heapProps :
              /\ \A f \in Range(Info(t).Fields) :
                    /\ ExpectedError(f, G.allowDangerousTypes) # "" =>
                          Err(t.pkg, ExpectedError(f, G.allowDangerousTypes)) \in DOMAIN errors
                    /\ Tagged(f) /\ ~Skipped(f) /\ ~Inline(f) =>
                          SerializedName(f) \in DOMAIN heapProps[t]
              /\ Len(LedgerNode(t).AllOf)
                    = Cardinality({i \in DOMAIN Info(t).Fields :
                                      LET f == Info(t).Fields[i]
                                      IN Tagged(f) /\ ~Skipped(f) /\ Inline(f)})
    /\ pc \in {"assemble", "done"} =>
          \A t \in scanStart :
              IsObject(t) \/ IsManaged(t.pkg, pkgMarkers) =>
                  t \in DOMAIN Schemata \ InProgress

(***************************************************************************)
(* C13: floats.                                                            *)
(***************************************************************************)
\* The struct fields whose synthesis has returned: those of the finished
\* structs and those behind the index of a call in progress.
SynthesizedFields ==
    UNION {{<<t, i>> : i \in DOMAIN Info(t).Fields} :
              t \in {u \in DOMAIN Schemata \ InProgress :
                        IsStruct(u) /\ ~Info(u).marshaler}}
    \cup UNION {{<<stack[j].typ, i>> : i \in 1..(stack[j].idx - 1)} : j \in DOMAIN stack}

FieldAt(ti) == Info(ti[1]).Fields[ti[2]]

\* The floating-point leaves that synthesizing the expression converts.
RECURSIVE FloatLeaves(_)
FloatLeaves(e) ==
    CASE e.k = "ident" -> IF e.res.t = "basic" /\ e.res.kind \in FloatKinds THEN 1 ELSE 0
      [] e.k = "array" -> FloatLeaves(e.elt)
      [] e.k = "star" -> FloatLeaves(e.x)
      [] e.k = "map" -> IF e.key = StringKey THEN FloatLeaves(e.val) ELSE 0
      [] OTHER -> 0

FloatsOf(ti) ==
    LET f == FieldAt(ti)
    IN IF Tagged(f) /\ ~Skipped(f) /\ SchemalessName \notin DOMAIN f.Markers
       THEN FloatLeaves(f.Type) ELSE 0

\* The floating-point fields converted so far in package p.
FloatsIn(p) ==
    LET S == {ti \in SynthesizedFields : ti[1].pkg = p}
    IN SumOver(S, [ti \in S |-> FloatsOf(ti)])

FoundFloat(p) == Err(p, "found float")

IsFloatField(f) ==
    /\ Tagged(f) /\ ~Skipped(f) /\ ~Inline(f) /\ DOMAIN f.Markers = {}
    /\ f.Type.k = "ident" /\ f.Type.res.t = "basic" /\ f.Type.res.kind \in FloatKinds

\* C13: with allowDangerousTypes disabled, converting a floating-point type
\* records one disallowed-float error on the package of the struct and yields
\* a node with empty type and format; with the flag enabled it yields type
\* "number" without format and records no error.
C13_FloatGating ==
    /\ \A p \in PkgIds :
          IF G.allowDangerousTypes \/ FloatsIn(p) = 0
          THEN FoundFloat(p) \notin DOMAIN errors
          ELSE FoundFloat(p) \in DOMAIN errors /\ errors[FoundFloat(p)] = FloatsIn(p)
    /\ pc = "scan" =>
          \A t \in DOMAIN heapProps : \A f \in Range(Info(t).Fields) :
              IsFloatField(f) =>
                  heapProps[t][SerializedName(f)] =
                      [EmptyNode EXCEPT
                          !.Type = IF G.allowDangerousTypes THEN "number" ELSE ""]

\* Both floating-point fields of the failing struct and of the struct it
\* refers to are converted with the flag disabled.
C13_Witness ==
    /\ graph.name = [family |-> "errors", lit |-> FALSE, allow |-> FALSE]
    /\ pc = "scan"
    /\ {TypeIdent("tax", "Z"), TypeIdent("tax", "After")} \subseteq DOMAIN heapProps
    /\ heapProps[TypeIdent("tax", "Z")]["f"].Type = ""
    /\ heapProps[TypeIdent("tax", "After")]["ratio"].Format = ""
    /\ errors[FoundFloat("tax")] = 2

(***************************************************************************)
(* C14: the tag "-".                                                       *)
(***************************************************************************)
\* The loop of structToSchema is at a field with the tag "-".
AtSkippedField ==
    /\ pc = "scan"
    /\ stack # <<>>
    /\ Top.final = <<>>
    /\ IsStruct(Top.typ)
    /\ Top.idx <= Len(Info(Top.typ).Fields)
    /\ Skipped(Info(Top.typ).Fields[Top.idx])

\* The step over a skipped field moves to the next field and does nothing else.
SkipStep ==
    AtSkippedField /\ stack' # stack =>
        /\ stack' = [stack EXCEPT ![Len(stack)] = [@ EXCEPT !.idx = @ + 1]]
        /\ UNCHANGED <<pc, errors, Schemata, heapProps, heapReq, refLog, applyLog, writes>>

\* No field of the struct is named "-" (the tag "-,").
NoFieldNamedDash(t) ==
    \A f \in Range(Info(t).Fields) : Tagged(f) /\ ~Skipped(f) => SerializedName(f) # "-"

\* The nodes in allOf are those of the inline fields that are not skipped.
AllOfIsInline(t) ==
    Len(LedgerNode(t).AllOf)
        = Cardinality({i \in DOMAIN Info(t).Fields :
                          Tagged(Info(t).Fields[i]) /\ Inline(Info(t).Fields[i])})

\* C14: a field whose json tag is exactly "-" is in neither properties nor
\* required nor allOf of its struct's schema, whichever the required mode of
\* the package and whatever its annotations, and passing it records no error.
C14_SkipTag ==
    /\ [](pc = "scan" =>
            \A t \in DOMAIN heapProps :
                (\E f \in Range(Info(t).Fields) : Skipped(f)) /\ NoFieldNamedDash(t) =>
                    /\ "-" \notin DOMAIN heapProps[t]
                    /\ "-" \notin Range(heapReq[t])
                    /\ AllOfIsInline(t))
    /\ [][SkipStep]_vars

\* The struct of the policy input is finished in the optional-by-default
\* package: its field tagged "-" is annotated required, and the one error is
\* that of the untagged field.
C14_Witness ==
    /\ graph.name = [family |-> "policy", p |-> "opt"]
    /\ pc = "scan"
    /\ TypeIdent("opt", "P") \in DOMAIN heapProps
    /\ \E f \in Range(Info(TypeIdent("opt", "P")).Fields) :
            Skipped(f) /\ AnnotatedRequired(f) /\ MaxItemsName \in DOMAIN f.Markers
    /\ DOMAIN errors = {Err("opt", "no JSON tag")}
    /\ errors[Err("opt", "no JSON tag")] = 1

(***************************************************************************)
(* C15: sequences.                                                         *)
(***************************************************************************)
\* A variable-length sequence of the single-byte integer type, which Go
\* names both byte and uint8.
IsByteSequence(e) ==
    /\ e.k = "array" /\ ~e.fixed
    /\ e.elt.k = "ident" /\ e.elt.res.t = "basic" /\ e.elt.res.kind \in {"byte", "uint8"}

\* The node is the schema of the element expression.
IsElementSchema(node, elt) ==
    CASE elt.k = "ident" /\ elt.res.t = "basic" ->
            /\ node.Type = builtinToType(elt.res.kind, G.allowDangerousTypes).typ
            /\ node.Ref = ""
      [] elt.k \in {"ident", "sel"} /\ elt.res.t = "named" -> node.Ref # "" /\ node.Type = ""
      [] OTHER -> TRUE

\* The fields of the finished structs whose schema is that of their type alone.
PlainFields(t) ==
    {f \in Range(Info(t).Fields) :
        Tagged(f) /\ ~Skipped(f) /\ ~Inline(f) /\ DOMAIN f.Markers = {}}

\* C15: a variable-length sequence of bytes is emitted as type "string" with
\* format "byte" and without items; a fixed-length byte array and every other
\* sequence is emitted as type "array" whose items is the element's schema.
C15_ByteSequences ==
    pc = "scan" =>
        \A t \in DOMAIN heapProps : \A f \in PlainFields(t) :
            f.Type.k = "array" =>
                LET node == heapProps[t][SerializedName(f)]
                IN IF IsByteSequence(f.Type)
                   THEN node.Type = "string" /\ node.Format = "byte" /\ node.Items = <<>>
                   ELSE /\ node.Type = "array" /\ node.Format = ""
                        /\ Len(node.Items) = 1
                        /\ IsElementSchema(node.Items[1], f.Type.elt)

(***************************************************************************)
(* C16 and C17: the taxonomy walk.                                         *)
(***************************************************************************)
\* The known types the fields of t resolve to, through pointers, arrays and
\* map values.
FieldTypesOf(t) ==
    IF t \in Types
    THEN {typeToTypeIdent(f.Type) : f \in Range(Info(t).Fields)} \cap Types
    ELSE {}

RECURSIVE ReachFrom(_)
ReachFrom(S) ==
    LET next == S \cup UNION {FieldTypesOf(t) : t \in S}
    IN IF next = S THEN S ELSE ReachFrom(next)

\* The types reachable from t in one step or more.
Reachable(t) == ReachFrom(FieldTypesOf(t))

\* Some type of a taxonomy package is reachable from t.
ReachesTaxonomy(t) == \E u \in Reachable(t) : IsManaged(u.pkg, pkgMarkers)

\* The object roots the assembly calls getFields for.
ObjectRoots == {t \in DOMAIN Schemata \cap Types : IsObject(t)}

\* C16: getFields terminates for every object root of every finite type
\* graph, cycles of types outside the taxonomy packages included, and for a
\* root from which no taxonomy package is reachable it reports "not taxonomy".
C16_GetFieldsTerminates ==
    pc = "assemble" =>
        \A root \in ObjectRoots :
            LET got == getFields(root, loaded, pkgMarkers)
            IN /\ ~got.overflow
               /\ ~ReachesTaxonomy(root) => ~got.tax

\* The document of an object root.
RootDocuments(root) == {d \in DOMAIN documents : documents[d].object = root}

\* The set the claim gives for the root.
RetainedAsSpecified(root) ==
    {t \in Reachable(root) : ~IsManaged(t.pkg, pkgMarkers) /\ ReachesTaxonomy(t)}

\* C17: for an object root R, getFields returns as a set exactly the known
\* types outside the taxonomy packages that are reachable from R and from
\* which a taxonomy type is reachable, and its boolean tells whether a
\* taxonomy type is reachable from R; once the documents are assembled each of
\* these types is a definition of the root's document.
C17_RetainedSet ==
    /\ pc \in {"assemble", "done"} =>
          \A root \in ObjectRoots :
              LET got == getFields(root, loaded, pkgMarkers)
              IN /\ Range(got.list) = RetainedAsSpecified(root)
                 /\ got.tax <=> ReachesTaxonomy(root)
    /\ pc = "done" =>
          \A root \in ObjectRoots :
              /\ RootDocuments(root) # {}
              /\ \A d \in RootDocuments(root) : \A t \in RetainedAsSpecified(root) :
                    DefinitionsOf(d, t) # {}

(***************************************************************************)
(* C18: the stores to the ledger and to pkgMarkers.                        *)
(***************************************************************************)
\* The empty schema NeedSchemaFor stores before it recurses.
Placeholder == StructValue(EmptyNode, NoPtr, 0)

\* How often NeedSchemaFor got as far as its stores for a type of package p.
SynthesesIn(p) ==
    LET S == {t \in AllTypes : t.pkg = p}
    IN SumOver(S, [t \in S |-> expanded[t]])

StoresCounted ==
    /\ DOMAIN writes.ledger = DOMAIN Schemata
    /\ \A t \in DOMAIN Schemata :
          writes.ledger[t] = IF t \in InProgress THEN 1 ELSE 2
    /\ DOMAIN writes.markers = DOMAIN pkgMarkers
    /\ \A p \in DOMAIN pkgMarkers :
          /\ pkgMarkers[p] = PackageMarkers(p)
          /\ writes.markers[p] = (IF p \in G.roots THEN 1 ELSE 0) + SynthesesIn(p)

\* A step stores a new ledger key as the placeholder, replaces only the
\* placeholder of the type whose synthesis returns, and leaves every finished
\* entry and every cached marker set as it is.
StoresInOrder ==
    /\ \A t \in DOMAIN Schemata' \ DOMAIN Schemata :
          Schemata'[t] = Placeholder /\ t \in InProgress'
    /\ \A t \in DOMAIN Schemata :
          /\ t \in DOMAIN Schemata'
          /\ Schemata'[t] # Schemata[t] =>
                /\ Schemata[t] = Placeholder
                /\ t \in InProgress \ InProgress'
    /\ \A p \in DOMAIN pkgMarkers : p \in DOMAIN pkgMarkers' /\ pkgMarkers'[p] = pkgMarkers[p]

ValuesOf(markerSet) ==
    UNION {{[name |-> n, value |-> markerSet[n][i]] : i \in DOMAIN markerSet[n]} :
              n \in DOMAIN markerSet}

\* The markers that rewrite the schema, and those of them that go first.
Rewrites(m) == m.kind \in {"ObjName", "Type", "MaxItems", "XPreserveUnknownFields"}

GoesFirst(m) == m.kind = "Type"

NameOf(markerSet, m) == CHOOSE n \in DOMAIN markerSet : m \in Range(markerSet[n])

\* Every apply-first marker is applied before every other one, every
\* rewriting marker is applied exactly once, and no other marker is applied.
FirstThenRest(e) ==
    /\ \A i, j \in DOMAIN e.applied :
          GoesFirst(e.applied[j]) /\ ~GoesFirst(e.applied[i]) => j < i
    /\ Range(e.applied) = {v.value : v \in {w \in ValuesOf(e.markers) : Rewrites(w.value)}}
    /\ Len(e.applied) = Cardinality(Range(e.applied))

\* The markers of one group that satisfy related are applied in the order of
\* their comment lines.
InSourceOrder(e, related(_, _)) ==
    \A i, j \in DOMAIN e.applied :
        /\ i < j
        /\ GoesFirst(e.applied[i]) = GoesFirst(e.applied[j])
        /\ related(NameOf(e.markers, e.applied[i]), NameOf(e.markers, e.applied[j]))
        => e.applied[i].pos < e.applied[j].pos

AnyTwo(m, n) == TRUE

SameName(m, n) == m = n

\* C19 as stated: in one call of applyMarkers the apply-first markers are
\* applied before the others, each group in its original relative order, each
\* rewriting marker once, the others never.
C19_AsStated ==
    \A e \in applyLog : FirstThenRest(e) /\ InSourceOrder(e, AnyTwo)

\* C19, amended: in one call of applyMarkers every apply-first rewriting
\* marker is applied before every other one, markers of the same name are
\* applied in their original relative order, each rewriting marker is applied
\* exactly once, and a marker that does not rewrite the schema is never
\* applied.
C19_AnnotationOrder ==
    \A e \in applyLog : FirstThenRest(e) /\ InSourceOrder(e, SameName)

\* A call with four markers, the apply-first one on the third comment line
\* and one that rewrites nothing: the apply-first marker was applied first and
\* the two others against the order of their lines.
C19_Witness ==
    \E e \in applyLog :
        /\ Cardinality(ValuesOf(e.markers)) = 4
        /\ Len(e.applied) = 3
        /\ e.applied[1].kind = "Type" /\ e.applied[1].pos = 3
        /\ e.applied[2].pos = 2 /\ e.applied[3].pos = 1

(***************************************************************************)
(* C20: x-kubernetes-preserve-unknown-fields.                              *)
(***************************************************************************)
\* Some marker the call applied set the flag.
SetsPreserve(e) == \E i \in DOMAIN e.applied : e.applied[i].kind = "XPreserveUnknownFields"

\* C20: when applyMarkers returns, the preserve-unknown-fields flag of the
\* node is not true; if a marker of the call set it, the flag is cleared and
\* additionalProperties allows, keeping the schema it had; otherwise
\* additionalProperties is as it was.
C20_PreserveNormalization ==
    \A e \in applyLog :
        /\ e.after.XPreserveUnknownFields # "true"
        /\ IF SetsPreserve(e)
           THEN /\ e.after.XPreserveUnknownFields = "nil"
                /\ Len(e.after.AdditionalProperties) = 1
                /\ e.after.AdditionalProperties[1].Allows
                /\ e.after.AdditionalProperties[1].Schema =
                      (IF e.before.AdditionalProperties = <<>> THEN <<>>
                       ELSE e.before.AdditionalProperties[1].Schema)
           ELSE e.after.AdditionalProperties = e.before.AdditionalProperties

\* The marker was applied to a field without additionalProperties, to a map
\* field, whose additionalProperties holds the schema of the values, and not
\* to another map field.
C20_Witness ==
    /\ graph.name.family = "markers"
    /\ \E e \in applyLog :
          SetsPreserve(e) /\ e.before.AdditionalProperties = <<>> /\ e.before.Type = "string"
    /\ \E e \in applyLog :
          /\ SetsPreserve(e)
          /\ e.before.AdditionalProperties # <<>>
          /\ e.after.AdditionalProperties[1].Schema # <<>>
    /\ \E e \in applyLog : ~SetsPreserve(e) /\ e.before.AdditionalProperties # <<>>

(***************************************************************************)
(* C21: the targets of the references.                                     *)
(***************************************************************************)
\* The top-level schemas document d is written with: its own schema and its
\* definitions.
SchemasOf(d) ==
    {documents[d].root}
    \cup {View(documents[d].Definitions[k].sv, heapProps, heapReq) :
             k \in DOMAIN documents[d].Definitions}

\* The references in document d.
RefsOf(d) == {n.Ref : n \in {m \in UNION {NodesOf(s) : s \in SchemasOf(d)} : m.Ref # ""}}

\* The reference, read in document d, names a definition of a document that
\* is written: <document>#/definitions/<key>, or #/definitions/<key> for a
\* key of d itself.
Resolves(d, ref) ==
    \/ \E k \in DOMAIN documents[d].Definitions : ref = "#/definitions/" \o k
    \/ \E t \in DOMAIN documents :
          \E k \in DOMAIN documents[t].Definitions : ref = t \o "#/definitions/" \o k

\* C21: in every document Generate writes, each $ref of each schema node
\* names a document that is written and a definition key of that document.
C21_ReferentialIntegrity ==
    pc = "done" => \A d \in DOMAIN documents : \A ref \in RefsOf(d) : Resolves(d, ref)

(***************************************************************************)
(* C22: the order of the enumerations.                                     *)
(***************************************************************************)
\* C22: for a fixed type graph the result of Generate, that is the keys of
\* the ledger, every $ref string and the documents with their definitions, is
\* the same whatever the order in which the driver enumerates parser.Types and
\* parser.Schemata: a run that ends has the result of every earlier run on the
\* same input.
C22_OrderIndependence ==
    pc = "done" => \A i \in DOMAIN previous : previous[i] = Outcome

====
